---- MODULE Spec2Model ----
(***************************************************************************)
(* catGar: sync of daily Garmin data into InfluxDB (src/catgar.py).        *)
(*                                                                         *)
(* The model covers the sync orchestration of catgar.py: the last-sync     *)
(* state file (read_last_sync / write_last_sync), the backfill locator     *)
(* (find_oldest_available_date), the per-day pipeline (fetch_and_write)    *)
(* with the activity sessions of a day and their detail collectors, the    *)
(* coercion _safe_float and the point builders, and the window planning    *)
(* and cursor commit of main.                                              *)
(*                                                                         *)
(* Calendar dates are Python proleptic-Gregorian ordinals (date.toordinal: *)
(* 0001-01-01 is 1).  Text is a sequence of one-character strings, so that *)
(* strftime and strptime are modelled by what they do to the characters.   *)
(***************************************************************************)
EXTENDS Integers, Sequences, FiniteSets, TLC

VARIABLES
    clock,          \* the calendar date date.today() would return
    padYear,        \* build: does strftime("%Y") zero-pad years below 1000
    args,           \* main: args, the parsed command line
    stateFile,      \* content of the last-sync state file
    pc,             \* position of the process: "idle", "sync", "done"
    mode,           \* selection mode of the current run
    today,          \* main: today
    start,          \* main: start
    end,            \* main: end
    days,           \* main: days
    i,              \* main: loop index of the day loop
    grand_total,    \* main: grand_total
    all_errors,     \* main: all_errors
    grand_counts,   \* main: grand_counts
    exit_code,      \* exit status of the finished run
    outcome,        \* how the run ended: "completed", "nothing_to_do", "crashed"
    faultsLeft,     \* failures the environment may still inject
    runsLeft,       \* runs of main still to be started
    cursorAtStart,  \* history: state file content when the run started
    cursorReads,    \* history: reads of the state file in this run
    cursorWrites,   \* history: writes of the state file in this run
    dayLog,         \* history: one DayResult (with its calls) per synced day
    prev,           \* history: summary of the previous run
    lpc,            \* locator: position in find_oldest_available_date
    earliest,       \* locator: earliest
    latest,         \* locator: latest
    low,            \* locator: low
    high,           \* locator: high
    probes,         \* locator: days probed so far
    presence,       \* upstream: the set of days for which Garmin has data
    located,        \* locator: the returned date
    io,             \* state-file exercise: last operation and its result
    fnCall          \* builder exercise: last function applied and its outcome

vars == << clock, padYear, args, stateFile, pc, outcome, mode, today, start, end,
           days, i, grand_total, all_errors, grand_counts, exit_code,
           faultsLeft, runsLeft, cursorAtStart, cursorReads, cursorWrites, dayLog,
           prev, lpc, earliest, latest, low, high, probes, presence, located,
           io, fnCall >>

-----------------------------------------------------------------------------
(* Bounds of the model.                                                    *)

\* failures injected per behaviour
MaxFaults == 2
\* runs of main per behaviour
MaxRuns == 2
\* days the calendar may advance past Epoch between runs
MaxAdvance == 1
\* largest window in days that --days and the stored cursors ask for
MaxWindow == 3
\* length in days of the ranges the locator is exercised on
MaxRange == 5
\* laps, heart-rate zones and track samples the upstream has of a session
MaxSamples == 2

-----------------------------------------------------------------------------
(* Calendar arithmetic of datetime.date.                                   *)

IsLeap(y) == (y % 4 = 0) /\ ((y % 100 # 0) \/ (y % 400 = 0))

DaysInMonth(y, m) ==
    IF m = 2 THEN (IF IsLeap(y) THEN 29 ELSE 28)
    ELSE IF m \in {4, 6, 9, 11} THEN 30 ELSE 31

DaysBeforeYear(y) ==
    LET p == y - 1 IN p * 365 + (p \div 4) - (p \div 100) + (p \div 400)

RECURSIVE DaysBeforeMonth(_, _)
DaysBeforeMonth(y, m) ==
    IF m = 1 THEN 0 ELSE DaysBeforeMonth(y, m - 1) + DaysInMonth(y, m - 1)

\* date(y, m, d).toordinal()
ymd2ord(y, m, d) == DaysBeforeYear(y) + DaysBeforeMonth(y, m) + d

\* date.fromordinal(n) as <<year, month, day>>
ord2ymd(n) ==
    LET n0   == n - 1
        n400 == n0 \div 146097
        r400 == n0 % 146097
        n100 == r400 \div 36524
        r100 == r400 % 36524
        n4   == r100 \div 1461
        r4   == r100 % 1461
        n1   == r4 \div 365
        r1   == r4 % 365
        year == n400 * 400 + 1 + n100 * 100 + n4 * 4 + n1
    IN  IF n1 = 4 \/ n100 = 4
        THEN << year - 1, 12, 31 >>
        ELSE LET m == CHOOSE k \in 1..12 :
                          /\ DaysBeforeMonth(year, k) <= r1
                          /\ r1 < DaysBeforeMonth(year, k) + DaysInMonth(year, k)
             IN  << year, m, r1 - DaysBeforeMonth(year, m) + 1 >>

-----------------------------------------------------------------------------
(* Text: strftime("%Y-%m-%d") and strptime(s, "%Y-%m-%d").                 *)

Digits == << "0", "1", "2", "3", "4", "5", "6", "7", "8", "9" >>

DigitChar(k) == Digits[k + 1]

IsDigit(c) == \E k \in 0..9 : Digits[k + 1] = c

DigitVal(c) == CHOOSE k \in 0..9 : Digits[k + 1] = c

\* decimal text of n >= 0, no padding
RECURSIVE Decimal(_)
Decimal(n) ==
    IF n < 10 THEN << DigitChar(n) >>
    ELSE Append(Decimal(n \div 10), DigitChar(n % 10))

\* text of n, zero-padded on the left to at least w characters
RECURSIVE ZeroPad(_, _)
ZeroPad(s, w) == IF Len(s) >= w THEN s ELSE ZeroPad(<< "0" >> \o s, w)

RECURSIVE Number(_)
Number(s) ==
    IF s = << >> THEN 0
    ELSE Number(SubSeq(s, 1, Len(s) - 1)) * 10 + DigitVal(s[Len(s)])

AllDigits(s) == \A k \in 1..Len(s) : IsDigit(s[k])

\* d.strftime("%Y-%m-%d"): %m and %d are two digits; %Y is the year's
\* decimal text, which the C library pads to four digits or not (pad)
strftime(d, pad) ==
    LET ymd == ord2ymd(d)
        y   == IF pad THEN ZeroPad(Decimal(ymd[1]), 4) ELSE Decimal(ymd[1])
    IN  y \o << "-" >> \o ZeroPad(Decimal(ymd[2]), 2)
          \o << "-" >> \o ZeroPad(Decimal(ymd[3]), 2)

\* positions of "-" in s
Dashes(s) == { k \in 1..Len(s) : s[k] = "-" }

\* datetime.strptime(s, "%Y-%m-%d").date(): the year is exactly four digits,
\* month and day one or two digits naming a real day of a year in 1..9999;
\* anything else is a ValueError.  Result [ok, date].
strptime(s) ==
    LET ds == Dashes(s) IN
    IF Cardinality(ds) # 2 THEN [ok |-> FALSE, date |-> 0]
    ELSE
      LET d1 == CHOOSE k \in ds : \A j \in ds : k <= j
          d2 == CHOOSE k \in ds : \A j \in ds : k >= j
          ys == SubSeq(s, 1, d1 - 1)
          ms == SubSeq(s, d1 + 1, d2 - 1)
          dd == SubSeq(s, d2 + 1, Len(s))
      IN  IF /\ Len(ys) = 4 /\ AllDigits(ys)
             /\ Len(ms) \in 1..2 /\ AllDigits(ms)
             /\ Len(dd) \in 1..2 /\ AllDigits(dd)
             /\ Number(ys) \in 1..9999
             /\ Number(ms) \in 1..12
             /\ Number(dd) \in 1..DaysInMonth(Number(ys), Number(ms))
          THEN [ok |-> TRUE, date |-> ymd2ord(Number(ys), Number(ms), Number(dd))]
          ELSE [ok |-> FALSE, date |-> 0]

-----------------------------------------------------------------------------
(* Last-sync state file.  The file is modelled by what json.loads makes of *)
(* its text: kind tells the shape, text is the last_sync string if any.    *)

FileKinds == { "missing", "not_json", "json_list", "json_number",
               "json_string", "json_null", "obj_no_key", "obj_key_null",
               "obj_key_number", "obj_key_string" }

File(kind, text) == [kind |-> kind, text |-> text]

\* the exception classes read_last_sync catches
ReadLastSyncCaught == { "JSONDecodeError", "KeyError", "ValueError" }

\* what the body of the try block raises on this content ("none": nothing)
ReadLastSyncRaises(file) ==
    CASE file.kind = "not_json" -> "JSONDecodeError"
      [] file.kind \in { "json_list", "json_number", "json_string", "json_null" }
            -> "TypeError"          \* data["last_sync"] on a non-mapping
      [] file.kind = "obj_no_key" -> "KeyError"
      [] file.kind \in { "obj_key_null", "obj_key_number" }
            -> "TypeError"          \* strptime() argument 1 must be str
      [] file.kind = "obj_key_string"
            -> IF strptime(file.text).ok THEN "none" ELSE "ValueError"
      [] OTHER -> "none"

Returned(d) == [kind |-> "date", date |-> d, exc |-> "none"]
ReturnedNone == [kind |-> "None", date |-> 0, exc |-> "none"]
Raised(e) == [kind |-> "raise", date |-> 0, exc |-> e]

\* read_last_sync(state_file)
read_last_sync(file) ==
    IF file.kind = "missing" THEN ReturnedNone
    ELSE LET e == ReadLastSyncRaises(file) IN
         IF e = "none" THEN Returned(strptime(file.text).date)
         ELSE IF e \in ReadLastSyncCaught THEN ReturnedNone
         ELSE Raised(e)

\* write_last_sync without the date formatting: the state file keeps its content
write_last_sync_lost(sync_date, pad, file) == file

\* write_last_sync(sync_date, state_file): the new content of the file
write_last_sync(sync_date, pad, file) ==
    File("obj_key_string", strftime(sync_date, pad))

-----------------------------------------------------------------------------
(* Values of a raw record and the coercion float(val).                     *)
(* A value is [t, mant, exp, s, items]: t is the Python type; a number is  *)
(* mant * 10^exp with mant free of trailing zeros; s is the text of a str, *)
(* or the name of a float that is not finite (nan, inf, -inf); items are   *)
(* the [key, val] pairs of a dict in insertion order, or the [val]         *)
(* elements of a list.                                                     *)

PyVal(t, mant, exp, s) ==
    [t |-> t, mant |-> mant, exp |-> exp, s |-> s, items |-> << >>]

None == PyVal("NoneType", 0, 0, << >>)

\* mant * 10^exp with the trailing zeros of mant moved into exp
RECURSIVE Normal(_, _)
Normal(mant, exp) ==
    IF mant = 0 THEN << 0, 0 >>
    ELSE IF mant % 10 = 0 THEN Normal(mant \div 10, exp + 1)
    ELSE << mant, exp >>

\* a number from the pair Normal gives
Num(t, norm) == PyVal(t, norm[1], norm[2], << >>)

PyInt(mant, exp) == Num("int", Normal(mant, exp))

PyBool(b) == PyVal("bool", IF b THEN 1 ELSE 0, 0, << >>)

PyFloat(mant, exp) == Num("float", Normal(mant, exp))

\* nan, inf, -inf
PyFloatNamed(name) == PyVal("float", 0, 0, << name >>)

PyStr(s) == PyVal("str", 0, 0, s)

PyList(elems) ==
    [t |-> "list", mant |-> 0, exp |-> 0, s |-> << >>,
     items |-> [k \in 1..Len(elems) |-> [key |-> "", val |-> elems[k]]]]

\* a dict of the given << key, value >> pairs
PyDict(pairs) ==
    [t |-> "dict", mant |-> 0, exp |-> 0, s |-> << >>,
     items |-> [k \in 1..Len(pairs) |-> [key |-> pairs[k][1], val |-> pairs[k][2]]]]

\* bool(val)
Truthy(val) ==
    CASE val.t = "NoneType" -> FALSE
      [] val.t \in { "bool", "int" } -> val.mant # 0
      [] val.t = "float" -> val.mant # 0 \/ val.s # << >>
      [] val.t = "str" -> val.s # << >>
      [] OTHER -> val.items # << >>

Keys(d) == { d.items[k].key : k \in DOMAIN d.items }

\* d[key] of a dict that has the key
Item(d, key) == d.items[CHOOSE k \in DOMAIN d.items : d.items[k].key = key].val

Abs(n) == IF n < 0 THEN 0 - n ELSE n

\* a number of `digits` decimal digits, the first four of them `lead`, times
\* 10^exp is beyond the largest finite double, 1.797...e308
Beyond(digits, lead, exp) ==
    digits + exp > 309 \/ (digits + exp = 309 /\ lead >= 1798)

\* the first four digits of the decimal text, zeros appended to a short one
Lead(text) == Number(SubSeq(text \o << "0", "0", "0" >>, 1, 4))

\* |mant * 10^exp| overflows a double, for a mant of at most four digits
FloatOverflows(mant, exp) ==
    /\ mant # 0
    /\ Beyond(Len(Decimal(Abs(mant))), Lead(Decimal(Abs(mant))), exp)

\* |mant * 10^exp| is below half the smallest positive double, 4.9e-324
FloatUnderflows(mant, exp) ==
    mant # 0 /\ Len(Decimal(Abs(mant))) + exp < 0 - 323

\* s without its leading and trailing blanks
RECURSIVE strip(_)
strip(s) ==
    IF s = << >> THEN s
    ELSE IF s[1] = " " THEN strip(Tail(s))
    ELSE IF s[Len(s)] = " " THEN strip(SubSeq(s, 1, Len(s) - 1))
    ELSE s

lower(c) ==
    CASE c = "N" -> "n" [] c = "A" -> "a" [] c = "I" -> "i" [] c = "F" -> "f"
      [] c = "T" -> "t" [] c = "Y" -> "y" [] c = "E" -> "e" [] OTHER -> c

Lowered(s) == [k \in 1..Len(s) |-> lower(s[k])]

\* position of the first c in s, 0 if there is none
IndexOf(s, c) ==
    IF \E k \in 1..Len(s) : s[k] = c
    THEN CHOOSE k \in 1..Len(s) : s[k] = c /\ \A j \in 1..(k - 1) : s[j] # c
    ELSE 0

Raise(exc) == [exc |-> exc, val |-> None]

Value(v) == [exc |-> "none", val |-> v]

\* val.get(key, default): a dict answers, anything else has no get
get(val, key, default) ==
    IF val.t # "dict" THEN Raise("AttributeError")
    ELSE IF key \in Keys(val) THEN Value(Item(val, key))
    ELSE Value(default)

\* the float of mant * 10^exp as the string parser rounds it: out of range
\* is inf or zero, never an exception
Rounded(mant, exp) ==
    IF FloatOverflows(mant, exp)
    THEN Value(PyFloatNamed(IF mant < 0 THEN "-inf" ELSE "inf"))
    ELSE IF FloatUnderflows(mant, exp) THEN Value(PyFloat(0, 0))
    ELSE Value(PyFloat(mant, exp))

\* the digits and the exponent are read: the value, or ValueError when
\* there is no digit or something else than a digit
Decimal_value(neg, int, frac, hasExp, exNeg, exDig) ==
    IF /\ int \o frac # << >>
       /\ AllDigits(int \o frac)
       /\ (hasExp => exDig # << >> /\ AllDigits(exDig))
    THEN Rounded((IF neg THEN 0 - 1 ELSE 1) * Number(int \o frac),
                 (IF exNeg THEN 0 - Number(exDig) ELSE Number(exDig))
                    - Len(frac))
    ELSE Raise("ValueError")

\* the mantissa text is split at its first point
Mantissa(neg, num, p, hasExp, exNeg, exDig) ==
    IF p = 0 THEN Decimal_value(neg, num, << >>, hasExp, exNeg, exDig)
    ELSE Decimal_value(neg, SubSeq(num, 1, p - 1),
                       SubSeq(num, p + 1, Len(num)), hasExp, exNeg, exDig)

\* the exponent text loses its sign
Exponent(neg, num, ex) ==
    IF ex # << >> /\ ex[1] \in { "+", "-" }
    THEN Mantissa(neg, num, IndexOf(num, "."), TRUE, ex[1] = "-", Tail(ex))
    ELSE Mantissa(neg, num, IndexOf(num, "."), TRUE, FALSE, ex)

\* the unsigned text is split at its first e
Unsigned(neg, body, e) ==
    IF body = << "n", "a", "n" >> THEN Value(PyFloatNamed("nan"))
    ELSE IF body \in { << "i", "n", "f" >>,
                       << "i", "n", "f", "i", "n", "i", "t", "y" >> }
    THEN Value(PyFloatNamed(IF neg THEN "-inf" ELSE "inf"))
    ELSE IF e = 0
    THEN Mantissa(neg, body, IndexOf(body, "."), FALSE, FALSE, << >>)
    ELSE Exponent(neg, SubSeq(body, 1, e - 1), SubSeq(body, e + 1, Len(body)))

\* the text loses its sign
Signed(s) ==
    IF s # << >> /\ s[1] \in { "+", "-" }
    THEN Unsigned(s[1] = "-", Tail(s), IndexOf(Tail(s), "e"))
    ELSE Unsigned(FALSE, s, IndexOf(s, "e"))

\* float(s) of a str: blanks stripped, a sign, then nan / inf / infinity in
\* any case, or digits with at most one point and an optional exponent
float_of_str(text) == Signed(Lowered(strip(text)))

\* float(val)
float(val) ==
    CASE val.t = "float" -> Value(val)
      [] val.t = "bool"  -> Value(PyFloat(val.mant, 0))
      [] val.t = "int"   -> IF FloatOverflows(val.mant, val.exp)
                            THEN Raise("OverflowError")
                            ELSE Value(PyFloat(val.mant, val.exp))
      [] val.t = "str"   -> float_of_str(val.s)
      [] OTHER           -> Raise("TypeError")

\* the exceptions _safe_float catches
SafeFloatCaught == { "ValueError", "TypeError" }

\* except (ValueError, TypeError): return None
Caught(r) == IF r.exc \in SafeFloatCaught THEN Value(None) ELSE r

\* _safe_float(val, field_name, measurement)
_safe_float(val) == Caught(float(val))

-----------------------------------------------------------------------------
(* Backfill locator: _probe_date and find_oldest_available_date.           *)

BACKFILL_MAX_DAYS == 365 * 5

\* what an upstream call does: it returns a value or raises
Answer(val) == [exc |-> "none", status |-> 0, val |-> val]

Error(exc, status) == [exc |-> exc, status |-> status, val |-> None]

\* the stats of a day with data, three shapes by the day: the record of
\* the tests, a distance with null steps, a resting heart rate alone
StatsWithData(d) ==
    CASE d % 3 = 0 -> PyDict(<< << "totalSteps", PyInt(5000, 0) >>,
                               << "restingHeartRate", PyInt(60, 0) >> >>)
      [] d % 3 = 1 -> PyDict(<< << "totalSteps", None >>,
                               << "totalDistanceMeters", PyFloat(12005, 0 - 1) >> >>)
      [] OTHER     -> PyDict(<< << "calendarDate", PyStr(<< "d" >>) >>,
                               << "restingHeartRate", PyInt(58, 0) >> >>)

\* what the upstream does for a day without data, seven ways by the day:
\* an empty record, null, a record of nulls, a list, a not-found HTTPError,
\* another HTTPError, a connection error
StatsWithoutData(d) ==
    CASE d % 7 = 0 -> Answer(PyDict(<< >>))
      [] d % 7 = 1 -> Error("HTTPError", 404)
      [] d % 7 = 2 -> Answer(None)
      [] d % 7 = 3 -> Error("ConnectionError", 0)
      [] d % 7 = 4 -> Answer(PyDict(<< << "totalSteps", None >>,
                                      << "calendarDate", PyStr(<< "d" >>) >> >>))
      [] d % 7 = 5 -> Error("HTTPError", 500)
      [] OTHER     -> Answer(PyList(<< PyInt(1, 0) >>))

\* garmin_client.get_stats(day_str) as the probe meets it
get_stats(data, day_str) ==
    IF strptime(day_str).date \in data
    THEN Answer(StatsWithData(strptime(day_str).date))
    ELSE StatsWithoutData(strptime(day_str).date)

\* the keys _probe_date looks at
ProbeKeys == { "totalSteps", "totalDistanceMeters", "restingHeartRate" }

\* what _probe_date returns, or the exception that leaves it
ProbeReturns(b) == [exc |-> "none", val |-> b]

ProbeRaises(exc) == [exc |-> exc, val |-> FALSE]

\* the try block of _probe_date, which may fall through to return False
ProbeTry(stats) ==
    IF stats.exc # "none" THEN ProbeRaises(stats.exc)
    ELSE IF ~ Truthy(stats.val) THEN ProbeReturns(FALSE)
    ELSE IF stats.val.t # "dict" THEN ProbeRaises("AttributeError")
    ELSE ProbeReturns(\E k \in ProbeKeys : get(stats.val, k, None).val # None)

\* exceptions that are no Exception
BaseExceptions == { "KeyboardInterrupt", "SystemExit", "GeneratorExit" }

\* handlers that take HTTPError alone
ProbeExcept_http(tried) ==
    IF tried.exc = "HTTPError" THEN ProbeReturns(FALSE) ELSE tried

\* except HTTPError: ... / except Exception: pass / return False
ProbeExcept(tried) ==
    IF tried.exc = "none" THEN tried
    ELSE IF tried.exc = "HTTPError" THEN ProbeReturns(FALSE)
    ELSE IF tried.exc \notin BaseExceptions THEN ProbeReturns(FALSE)
    ELSE tried

\* _probe_date(garmin_client, day_str)
_probe_date(data, day_str) == ProbeExcept(ProbeTry(get_stats(data, day_str)))

\* the probe of day d as find_oldest_available_date issues it
Probe(data, d, pad) == _probe_date(data, strftime(d, pad))

\* a loop that moves the wrong bound: off by one on the high side
LoopStep_off(lo, hi, present) ==
    IF present THEN [low |-> lo, high |-> ((lo + hi) \div 2) - 1]
    ELSE [low |-> ((lo + hi) \div 2) + 1, high |-> hi]

\* a loop that keeps the midpoint as the low bound
LoopStep_stuck(lo, hi, present) ==
    IF present THEN [low |-> lo, high |-> (lo + hi) \div 2]
    ELSE [low |-> (lo + hi) \div 2, high |-> hi]

\* one iteration of the while loop, given the probe of the midpoint
LoopStep(lo, hi, present) ==
    IF present THEN [low |-> lo, high |-> (lo + hi) \div 2]
    ELSE [low |-> ((lo + hi) \div 2) + 1, high |-> hi]

LocatorVars == << lpc, earliest, latest, low, high, probes, located >>

\* a probe raised: the exception leaves find_oldest_available_date
LocRaise ==
    /\ lpc' = "raised"
    /\ UNCHANGED << low, high, located >>

\* entry of find_oldest_available_date and the one-day range
LocEnter ==
    /\ lpc = "enter"
    /\ IF latest - earliest <= 0
       THEN /\ probes' = Append(probes, latest)
            /\ IF Probe(presence, latest, padYear).exc # "none"
               THEN LocRaise
               ELSE /\ low' = 0
                    /\ high' = latest - earliest
                    /\ located' = latest
                    /\ lpc' = "returned"
       ELSE /\ low' = 0
            /\ high' = latest - earliest
            /\ lpc' = "probe_earliest"
            /\ UNCHANGED << probes, located >>
    /\ UNCHANGED << earliest, latest >>

\* quick check of the earliest date
LocProbeEarliest ==
    /\ lpc = "probe_earliest"
    /\ probes' = Append(probes, earliest)
    /\ IF Probe(presence, earliest, padYear).exc # "none" THEN LocRaise
       ELSE /\ IF Probe(presence, earliest, padYear).val
               THEN located' = earliest /\ lpc' = "returned"
               ELSE located' = located /\ lpc' = "probe_latest"
            /\ UNCHANGED << low, high >>
    /\ UNCHANGED << earliest, latest >>

\* quick check of the latest date
LocProbeLatest ==
    /\ lpc = "probe_latest"
    /\ probes' = Append(probes, latest)
    /\ IF Probe(presence, latest, padYear).exc # "none" THEN LocRaise
       ELSE /\ IF ~ Probe(presence, latest, padYear).val
               THEN located' = latest /\ lpc' = "returned"
               ELSE located' = located /\ lpc' = "loop"
            /\ UNCHANGED << low, high >>
    /\ UNCHANGED << earliest, latest >>

\* one iteration of the binary search
LocLoop ==
    /\ lpc = "loop"
    /\ low < high
    /\ probes' = Append(probes, earliest + ((low + high) \div 2))
    /\ \E probed \in { Probe(presence, earliest + ((low + high) \div 2), padYear) } :
           IF probed.exc # "none" THEN LocRaise
           ELSE /\ low' = LoopStep(low, high, probed.val).low
                /\ high' = LoopStep(low, high, probed.val).high
                /\ UNCHANGED << lpc, located >>
    /\ UNCHANGED << earliest, latest >>

\* the loop ends: return earliest + low
LocReturn ==
    /\ lpc = "loop"
    /\ ~ (low < high)
    /\ located' = earliest + low
    /\ lpc' = "returned"
    /\ UNCHANGED << earliest, latest, low, high, probes >>

-----------------------------------------------------------------------------
(* Point builders.                                                         *)

_IGNORED_GENERIC_KEYS ==
    { "calendarDate", "startTimestampGMT", "endTimestampGMT",
      "startTimestampLocal", "endTimestampLocal",
      "userProfilePK", "startOfDayGMT", "startOfDayLocal",
      "userDailySummaryId",
      "wellnessStartTimeGmt", "wellnessStartTimeLocal",
      "wellnessEndTimeGmt", "wellnessEndTimeLocal",
      "source", "stressQualifier",
      "latestSpo2ReadingTimeGmt", "latestSpo2ReadingTimeLocal",
      "latestRespirationTimeGMT",
      "latestSpO2TimestampGMT", "latestSpO2TimestampLocal",
      "tomorrowSleepStartTimestampGMT", "tomorrowSleepEndTimestampGMT",
      "tomorrowSleepStartTimestampLocal", "tomorrowSleepEndTimestampLocal",
      "startDate", "endDate" }

\* the outcome of a builder: the exception it raised, or its list
Built(items) == [exc |-> "none", items |-> items]

Failed(exc) == [exc |-> exc, items |-> << >>]

\* an extras collector that also takes the keys the builder declared
Skipped_declared(key, known_keys) == key \in _IGNORED_GENERIC_KEYS

\* if key in known_keys or key in _IGNORED_GENERIC_KEYS: continue
Skipped(key, known_keys) ==
    key \in known_keys \/ key \in _IGNORED_GENERIC_KEYS

\* the loop of _collect_extra_fields over data.items(), from position k
RECURSIVE ExtrasFrom(_, _, _, _)
ExtrasFrom(data, known_keys, k, extras) ==
    IF k > Len(data.items) THEN Built(extras)
    ELSE LET Rest(more) == ExtrasFrom(data, known_keys, k + 1, more)
             Coerced(key, fval) ==
                 IF fval.exc # "none" THEN Failed(fval.exc)
                 ELSE IF fval.val # None
                 THEN Rest(Append(extras, [key |-> key, val |-> fval.val]))
                 ELSE Rest(extras)
             Entry(key, val) ==
                 IF Skipped(key, known_keys) THEN Rest(extras)
                 ELSE IF val.t \in { "NoneType", "dict", "list" } THEN Rest(extras)
                 ELSE Coerced(key, _safe_float(val))
         IN  Entry(data.items[k].key, data.items[k].val)

\* _collect_extra_fields(data, known_keys, measurement)
_collect_extra_fields(data, known_keys) ==
    IF data.t # "dict" THEN Built(<< >>)
    ELSE ExtrasFrom(data, known_keys, 1, << >>)

\* Point(measurement).time(ts, WritePrecision.S).field(name, value)
Point(measurement, ts, name, value) ==
    [measurement |-> measurement, tags |-> {}, time |-> ts,
     field |-> name, value |-> value]

\* midnight of day_str, precision of seconds
DayTs(day_str) ==
    [day |-> strptime(day_str).date, sec |-> 0, precision |-> "S"]

\* a field_map value of None: the key is declared and emits nothing itself
Suppressed == "None"

FieldMapKeys(field_map) == { field_map[k][1] : k \in DOMAIN field_map }

\* the loop over field_map.items(), from position k
RECURSIVE MappedFrom(_, _, _, _, _, _)
MappedFrom(summary, field_map, measurement, ts, k, points) ==
    IF k > Len(field_map) THEN Built(points)
    ELSE LET Rest(more) ==
                 MappedFrom(summary, field_map, measurement, ts, k + 1, more)
             Coerced(fval) ==
                 IF fval.exc # "none" THEN Failed(fval.exc)
                 ELSE IF fval.val = None THEN Rest(points)
                 ELSE Rest(Append(points, Point(measurement, ts,
                                                field_map[k][2], fval.val)))
             Got(got) ==
                 IF got.exc # "none" THEN Failed(got.exc)
                 ELSE IF got.val = None THEN Rest(points)
                 ELSE Coerced(_safe_float(got.val))
         IN  IF field_map[k][2] = Suppressed THEN Rest(points)
             ELSE Got(get(summary, field_map[k][1], None))

\* a closing loop that emits no point for the extra fields
Extended_none(measurement, ts, points, extras) ==
    IF extras.exc # "none" THEN Failed(extras.exc) ELSE Built(points)

\* one point per extra field, after the points built so far
Extended(measurement, ts, points, extras) ==
    IF extras.exc # "none" THEN Failed(extras.exc)
    ELSE Built(points \o [k \in 1..Len(extras.items) |->
                 Point(measurement, ts, extras.items[k].key, extras.items[k].val)])

\* the closing loop of a builder over _collect_extra_fields
ExtraPoints(summary, field_map, measurement, ts, points) ==
    Extended(measurement, ts, points,
             _collect_extra_fields(summary, FieldMapKeys(field_map)))

\* a builder's next step, unless the step before it raised
AndThen(built, Next_step(_)) ==
    IF built.exc # "none" THEN built ELSE Next_step(built.items)

\* field_map of build_daily_stats_points
DailyStatsFieldMap ==
    << << "totalSteps", "steps" >>,
       << "totalDistanceMeters", "distance_meters" >>,
       << "activeKilocalories", "active_kcal" >>,
       << "totalKilocalories", "total_kcal" >>,
       << "restingHeartRate", "resting_hr" >>,
       << "maxHeartRate", "max_hr" >>,
       << "minHeartRate", "min_hr" >>,
       << "averageHeartRate", "avg_hr" >>,
       << "moderateIntensityMinutes", "moderate_intensity_min" >>,
       << "vigorousIntensityMinutes", "vigorous_intensity_min" >>,
       << "floorsAscended", "floors_ascended" >>,
       << "floorsDescended", "floors_descended" >>,
       << "averageStressLevel", "avg_stress" >>,
       << "maxStressLevel", "max_stress" >>,
       << "bodyBatteryChargedValue", "body_battery_charged" >>,
       << "bodyBatteryDrainedValue", "body_battery_drained" >>,
       << "bodyBatteryHighestValue", "body_battery_high" >>,
       << "bodyBatteryLowestValue", "body_battery_low" >> >>

\* build_daily_stats_points(stats, day_str)
build_daily_stats_points(stats, day_str) ==
    LET Extras(points) ==
            ExtraPoints(stats, DailyStatsFieldMap, "daily_stats",
                        DayTs(day_str), points)
    IN  AndThen(MappedFrom(stats, DailyStatsFieldMap, "daily_stats",
                           DayTs(day_str), 1, << >>),
                Extras)

\* field_map of build_sleep_points
SleepFieldMap ==
    << << "sleepTimeSeconds", "sleep_time_sec" >>,
       << "deepSleepSeconds", "deep_sleep_sec" >>,
       << "lightSleepSeconds", "light_sleep_sec" >>,
       << "remSleepSeconds", "rem_sleep_sec" >>,
       << "awakeSleepSeconds", "awake_sec" >>,
       << "averageSpO2Value", "avg_spo2" >>,
       << "lowestSpO2Value", "lowest_spo2" >>,
       << "averageRespirationValue", "avg_respiration" >>,
       << "lowestRespirationValue", "lowest_respiration" >>,
       << "highestRespirationValue", "highest_respiration" >>,
       << "averageSpO2HRSleep", "avg_hr_sleep" >>,
       << "sleepScores", Suppressed >> >>

\* the score keys of build_sleep_points and the fields f"score_{score_key}"
SleepScoreKeys ==
    << << "overall", "score_overall" >>,
       << "totalDuration", "score_totalDuration" >>,
       << "stress", "score_stress" >>,
       << "revitalizationScore", "score_revitalizationScore" >> >>

\* the loop over the score keys, from position k
RECURSIVE ScoresFrom(_, _, _, _)
ScoresFrom(scores, ts, k, points) ==
    IF k > Len(SleepScoreKeys) THEN Built(points)
    ELSE LET Rest(more) == ScoresFrom(scores, ts, k + 1, more)
             Coerced(fval) ==
                 IF fval.exc # "none" THEN Failed(fval.exc)
                 ELSE IF fval.val = None THEN Rest(points)
                 ELSE Rest(Append(points, Point("sleep", ts,
                                             SleepScoreKeys[k][2], fval.val)))
             Scored(val) ==
                 IF val = None THEN Rest(points) ELSE Coerced(_safe_float(val))
             Got(score_obj) ==
                 IF score_obj.exc # "none" THEN Failed(score_obj.exc)
                 ELSE IF score_obj.val.t = "dict"
                 THEN Scored(get(score_obj.val, "value", None).val)
                 ELSE Scored(score_obj.val)
         IN  Got(get(scores, SleepScoreKeys[k][1], None))

\* build_sleep_points after summary = sleep_data.get("dailySleepDTO", {})
SleepSummary(summary, ts) ==
    LET Extras(points) == ExtraPoints(summary, SleepFieldMap, "sleep", ts, points)
        Scores(scores, points) ==
            IF Truthy(scores)
            THEN AndThen(ScoresFrom(scores, ts, 1, points), Extras)
            ELSE Extras(points)
        Mapped(points) ==
            Scores(get(summary, "sleepScores", PyDict(<< >>)).val, points)
    IN  AndThen(MappedFrom(summary, SleepFieldMap, "sleep", ts, 1, << >>),
                Mapped)

\* the summary a get returned, or the exception it raised
WithSummary(got, ts, Build(_, _)) ==
    IF got.exc # "none" THEN Failed(got.exc) ELSE Build(got.val, ts)

\* build_sleep_points(sleep_data, day_str)
build_sleep_points(sleep_data, day_str) ==
    WithSummary(get(sleep_data, "dailySleepDTO", PyDict(<< >>)),
                DayTs(day_str), SleepSummary)

\* field_map of build_hrv_points
HrvFieldMap ==
    << << "weeklyAvg", "weekly_avg" >>,
       << "lastNight", "last_night" >>,
       << "lastNightAvg", "last_night_avg" >>,
       << "lastNight5MinHigh", "last_night_5min_high" >>,
       << "baseline", Suppressed >>,
       << "status", Suppressed >> >>

\* the baseline keys of build_hrv_points and the fields f"baseline_{bkey}"
HrvBaselineKeys ==
    << << "lowUpper", "baseline_lowUpper" >>,
       << "balancedLow", "baseline_balancedLow" >>,
       << "balancedUpper", "baseline_balancedUpper" >> >>

\* the loop over the baseline keys, from position k
RECURSIVE BaselineFrom(_, _, _, _)
BaselineFrom(baseline, ts, k, points) ==
    IF k > Len(HrvBaselineKeys) THEN Built(points)
    ELSE LET Rest(more) == BaselineFrom(baseline, ts, k + 1, more)
             Coerced(fval) ==
                 IF fval.exc # "none" THEN Failed(fval.exc)
                 ELSE IF fval.val = None THEN Rest(points)
                 ELSE Rest(Append(points, Point("hrv", ts,
                                             HrvBaselineKeys[k][2], fval.val)))
             Got(val) ==
                 IF val = None THEN Rest(points) ELSE Coerced(_safe_float(val))
         IN  Got(get(baseline, HrvBaselineKeys[k][1], None).val)

\* build_hrv_points after summary = hrv_data.get("hrvSummary", hrv_data)
HrvSummary(summary, ts) ==
    LET Extras(points) == ExtraPoints(summary, HrvFieldMap, "hrv", ts, points)
        Baseline(baseline, points) ==
            IF baseline.t = "dict"
            THEN AndThen(BaselineFrom(baseline, ts, 1, points), Extras)
            ELSE Extras(points)
        Mapped(points) ==
            Baseline(get(summary, "baseline", PyDict(<< >>)).val, points)
    IN  AndThen(MappedFrom(summary, HrvFieldMap, "hrv", ts, 1, << >>),
                Mapped)

\* build_hrv_points(hrv_data, day_str)
build_hrv_points(hrv_data, day_str) ==
    IF ~ Truthy(hrv_data) THEN Built(<< >>)
    ELSE WithSummary(get(hrv_data, "hrvSummary", hrv_data),
                     DayTs(day_str), HrvSummary)

-----------------------------------------------------------------------------
(* Activity sessions: the builders of the activities block.  A point of    *)
(* these builders carries all its fields; its identity in the sink is its  *)
(* measurement, its tag set and its time.                                  *)

RECURSIVE Zeros(_)
Zeros(n) == IF n <= 0 THEN << >> ELSE << "0" >> \o Zeros(n - 1)

\* str(val), for the values an id or an index takes
str(val) ==
    CASE val.t = "str" -> val.s
      [] val.t = "int" /\ val.mant >= 0 -> Decimal(val.mant) \o Zeros(val.exp)
      [] val.t = "int" /\ val.mant < 0 ->
             << "-" >> \o Decimal(0 - val.mant) \o Zeros(val.exp)
      [] val.t = "NoneType" -> << "N", "o", "n", "e" >>
      [] OTHER -> << val.t >>

\* a or b
Or(a, b) == IF Truthy(a) THEN a ELSE b

\* get(...) or get(...): the second lookup runs when the first is falsy
OrGet(first, val, key) ==
    IF first.exc # "none" \/ Truthy(first.val) THEN first
    ELSE get(val, key, None)

\* for x in val
Iterate(val) ==
    CASE val.t = "list" -> Built([k \in 1..Len(val.items) |-> val.items[k].val])
      [] val.t = "dict" ->
             Built([k \in 1..Len(val.items) |-> PyStr(<< val.items[k].key >>)])
      [] val.t = "str" -> Built([k \in 1..Len(val.s) |-> PyStr(<< val.s[k] >>)])
      [] OTHER -> Failed("TypeError")

Positions(s, c) == { k \in 1..Len(s) : s[k] = c }

First(ks) == CHOOSE k \in ks : \A j \in ks : k <= j

Last(ks) == CHOOSE k \in ks : \A j \in ks : k >= j

\* %H:%M:%S, and the range check of the datetime constructor
TimeOfDay(s) ==
    LET Parts(hh, mm, ss) ==
            IF /\ Len(hh) \in 1..2 /\ AllDigits(hh) /\ Number(hh) <= 23
               /\ Len(mm) \in 1..2 /\ AllDigits(mm) /\ Number(mm) <= 59
               /\ Len(ss) \in 1..2 /\ AllDigits(ss) /\ Number(ss) <= 59
            THEN [ok |-> TRUE,
                  sec |-> Number(hh) * 3600 + Number(mm) * 60 + Number(ss)]
            ELSE [ok |-> FALSE, sec |-> 0]
        Split(c1, c2) ==
            Parts(SubSeq(s, 1, c1 - 1), SubSeq(s, c1 + 1, c2 - 1),
                  SubSeq(s, c2 + 1, Len(s)))
        At(cs) ==
            IF Cardinality(cs) # 2 THEN [ok |-> FALSE, sec |-> 0]
            ELSE Split(First(cs), Last(cs))
    IN  At(Positions(s, ":"))

NoTs == [day |-> 0, sec |-> 0, precision |-> "S"]

Parsed(ts) == [exc |-> "none", ts |-> ts]

NotParsed(exc) == [exc |-> exc, ts |-> NoTs]

\* datetime.strptime(ts_str, "%Y-%m-%d %H:%M:%S"): the date, one blank or
\* more, the time of day
strptime_seconds(ts_str) ==
    LET Both(d, t) ==
            IF d.ok /\ t.ok
            THEN Parsed([day |-> d.date, sec |-> t.sec, precision |-> "S"])
            ELSE NotParsed("ValueError")
        Split(s, b1, b2) ==
            Both(strptime(SubSeq(s, 1, b1 - 1)), TimeOfDay(SubSeq(s, b2 + 1, Len(s))))
        At(s, bs) ==
            IF bs = {} \/ Cardinality(bs) # Last(bs) - First(bs) + 1
            THEN NotParsed("ValueError")
            ELSE Split(s, First(bs), Last(bs))
    IN  IF ts_str.t # "str" THEN NotParsed("TypeError")
        ELSE At(ts_str.s, Positions(ts_str.s, " "))

\* .tag(key, value)
Tag(tags, key, value) == tags \cup { << key, value >> }

\* Point(measurement) with its tags, .time(ts, WritePrecision.S), its fields
SessionPoint(measurement, tags, ts, fields) ==
    [measurement |-> measurement, tags |-> tags, time |-> ts, fields |-> fields]

\* what the sink keys a point by
Identity(p) == [measurement |-> p.measurement, tags |-> p.tags, time |-> p.time]

\* one pass of the loop over field_map.items(): the field it adds (val is
\* None where it adds none), or the exception it raises
FieldOf(record, entry) ==
    LET Coerced(fval) == [key |-> entry[2], exc |-> fval.exc, val |-> fval.val]
        Got(got) ==
            IF got.exc # "none" \/ got.val = None THEN Coerced(got)
            ELSE Coerced(_safe_float(got.val))
    IN  IF entry[2] = Suppressed THEN Coerced(Value(None))
        ELSE Got(get(record, entry[1], None))

\* the loop over field_map.items() that adds fields to one point: the
\* fields in the order of field_map, unless a pass raises
FieldsFrom(record, field_map) ==
    LET Acts(pass) == pass.exc # "none" \/ pass.val # None
        Raises_at(passes) == { k \in DOMAIN passes : passes[k].exc # "none" }
        Outcome(passes, raised) ==
            IF raised # {} THEN Failed(passes[First(raised)].exc)
            ELSE Built([k \in DOMAIN passes |->
                           [key |-> passes[k].key, val |-> passes[k].val]])
        Passed(passes) == Outcome(passes, Raises_at(passes))
    IN  Passed(SelectSeq([k \in DOMAIN field_map |-> FieldOf(record, field_map[k])],
                         Acts))

\* if has_fields: points.append(p)
Appended(points, measurement, tags, ts, fields) ==
    IF fields = << >> THEN points
    ELSE Append(points, SessionPoint(measurement, tags, ts, fields))

Unknown == PyStr(<< "u", "n", "k", "n", "o", "w", "n" >>)

NoHeader == [exc |-> "none", ok |-> FALSE, ts |-> NoTs,
             act_type |-> None, act_name |-> None]

\* ts, act_type and act_name of one entry of the activity list: ok is FALSE
\* where the loop continues with the next entry
Header(act) ==
    LET Named(ts, act_type, got) ==
            IF got.exc # "none" THEN [NoHeader EXCEPT !.exc = got.exc]
            ELSE [exc |-> "none", ok |-> TRUE, ts |-> ts,
                  act_type |-> act_type, act_name |-> got.val]
        Typed(ts, got) ==
            IF got.exc # "none" THEN [NoHeader EXCEPT !.exc = got.exc]
            ELSE Named(ts, got.val, get(act, "activityName", PyStr(<< >>)))
        Inner(got) ==
            IF got.exc # "none" THEN got ELSE get(got.val, "typeKey", Unknown)
        Timed(parsed) ==
            IF parsed.exc # "none" THEN NoHeader
            ELSE Typed(parsed.ts, Inner(get(act, "activityType", PyDict(<< >>))))
        Started(got) ==
            IF got.exc # "none" THEN [NoHeader EXCEPT !.exc = got.exc]
            ELSE IF ~ Truthy(got.val) THEN NoHeader
            ELSE Timed(strptime_seconds(got.val))
    IN  Started(OrGet(get(act, "startTimeLocal", None), act, "startTimeGMT"))

\* field_map of build_activity_points
ActivityFieldMap ==
    << << "distance", "distance_meters" >>,
       << "duration", "duration_sec" >>,
       << "elapsedDuration", "elapsed_sec" >>,
       << "movingDuration", "moving_sec" >>,
       << "averageHR", "avg_hr" >>,
       << "maxHR", "max_hr" >>,
       << "calories", "calories" >>,
       << "averageSpeed", "avg_speed" >>,
       << "maxSpeed", "max_speed" >>,
       << "elevationGain", "elevation_gain" >>,
       << "elevationLoss", "elevation_loss" >>,
       << "averageRunningCadenceInStepsPerMinute", "avg_cadence" >>,
       << "steps", "steps" >>,
       << "vO2MaxValue", "vo2max" >>,
       << "avgPower", "avg_power" >>,
       << "maxPower", "max_power" >>,
       << "trainingEffectLabel", Suppressed >> >>

\* the loop of build_activity_points over the list, from position k
RECURSIVE ActivityPointsFrom(_, _, _)
ActivityPointsFrom(acts, k, points) ==
    IF k > Len(acts) THEN Built(points)
    ELSE LET Rest(more) == ActivityPointsFrom(acts, k + 1, more)
             Fielded(h, fields) ==
                 IF fields.exc # "none" THEN Failed(fields.exc)
                 ELSE Rest(Appended(points, "activity",
                                    Tag(Tag({}, "type", h.act_type),
                                        "name", h.act_name),
                                    h.ts, fields.items))
             Headed(act, h) ==
                 IF h.exc # "none" THEN Failed(h.exc)
                 ELSE IF ~ h.ok THEN Rest(points)
                 ELSE Fielded(h, FieldsFrom(act, ActivityFieldMap))
         IN  Headed(acts[k], Header(acts[k]))

\* build_activity_points(activities)
build_activity_points(activities) ==
    LET Listed(acts) ==
            IF acts.exc # "none" THEN Failed(acts.exc)
            ELSE ActivityPointsFrom(acts.items, 1, << >>)
    IN  Listed(Iterate(Or(activities, PyList(<< >>))))

\* the tags the builders of one session share
SessionTags(activity_id, act_type, act_name) ==
    Tag(Tag(Tag({}, "type", act_type), "name", act_name),
        "activity_id", PyStr(str(activity_id)))

\* a builder that makes one point of a record
OnePoint(measurement, tags, ts, fields) ==
    IF fields.exc # "none" THEN Failed(fields.exc)
    ELSE Built(Appended(<< >>, measurement, tags, ts, fields.items))

\* field_map of build_activity_detail_points
DetailFieldMap ==
    << << "trainingEffect", "training_effect_aerobic" >>,
       << "anaerobicTrainingEffect", "training_effect_anaerobic" >>,
       << "aerobicTrainingEffectMessage", Suppressed >>,
       << "anaerobicTrainingEffectMessage", Suppressed >>,
       << "performanceCondition", "performance_condition" >>,
       << "lactateThreshold", "lactate_threshold" >>,
       << "normalizedPower", "normalized_power" >>,
       << "groundContactTime", "ground_contact_time" >>,
       << "groundContactBalanceLeft", "ground_contact_balance_left" >>,
       << "strideLength", "stride_length" >>,
       << "verticalOscillation", "vertical_oscillation" >>,
       << "verticalRatio", "vertical_ratio" >>,
       << "trainingStressScore", "training_stress_score" >>,
       << "intensityFactor", "intensity_factor" >>,
       << "functionalThresholdPower", "ftp" >>,
       << "minTemperature", "min_temperature" >>,
       << "maxTemperature", "max_temperature" >>,
       << "minElevation", "min_elevation" >>,
       << "maxElevation", "max_elevation" >>,
       << "maxRunCadence", "max_cadence" >>,
       << "maxBikeCadence", "max_bike_cadence" >>,
       << "lapCount", "lap_count" >>,
       << "waterEstimated", "water_estimated_ml" >>,
       << "directWorkoutFeel", Suppressed >>,
       << "directWorkoutRpe", Suppressed >> >>

\* build_activity_detail_points(detail_data, activity_id, act_type, act_name, ts)
build_activity_detail_points(detail_data, activity_id, act_type, act_name, ts) ==
    IF ~ Truthy(detail_data) \/ detail_data.t # "dict" THEN Built(<< >>)
    ELSE OnePoint("activity_detail",
                  SessionTags(activity_id, act_type, act_name), ts,
                  FieldsFrom(Or(get(detail_data, "summaryDTO", None).val,
                                detail_data),
                             DetailFieldMap))

\* field_map of build_activity_split_points
SplitFieldMap ==
    << << "distance", "distance_meters" >>,
       << "duration", "duration_sec" >>,
       << "movingDuration", "moving_sec" >>,
       << "averageHR", "avg_hr" >>,
       << "maxHR", "max_hr" >>,
       << "averageSpeed", "avg_speed" >>,
       << "maxSpeed", "max_speed" >>,
       << "calories", "calories" >>,
       << "elevationGain", "elevation_gain" >>,
       << "elevationLoss", "elevation_loss" >>,
       << "averageRunCadence", "avg_cadence" >>,
       << "maxRunCadence", "max_cadence" >>,
       << "averagePower", "avg_power" >>,
       << "maxPower", "max_power" >>,
       << "startLatitude", "start_lat" >>,
       << "startLongitude", "start_lon" >>,
       << "endLatitude", "end_lat" >>,
       << "endLongitude", "end_lon" >>,
       << "totalExerciseReps", "total_reps" >>,
       << "messageIndex", Suppressed >> >>

\* the elements of a list value
Elements(val) == [k \in 1..Len(val.items) |-> val.items[k].val]

\* for idx, lap in enumerate(lap_list), from position k = idx + 1
RECURSIVE SplitsFrom(_, _, _, _, _)
SplitsFrom(laps, tags, ts, k, points) ==
    IF k > Len(laps) THEN Built(points)
    ELSE LET Rest(more) == SplitsFrom(laps, tags, ts, k + 1, more)
             Fielded(fields) ==
                 IF fields.exc # "none" THEN Failed(fields.exc)
                 ELSE Rest(Appended(points, "activity_split",
                                    Tag(tags, "split_num", PyStr(str(PyInt(k, 0)))),
                                    ts, fields.items))
         IN  IF laps[k].t # "dict" THEN Rest(points)
             ELSE Fielded(FieldsFrom(laps[k], SplitFieldMap))

\* build_activity_split_points(splits_data, activity_id, act_type, act_name, ts)
build_activity_split_points(splits_data, activity_id, act_type, act_name, ts) ==
    LET Laps(lap_list) ==
            IF lap_list.t # "list" THEN Built(<< >>)
            ELSE SplitsFrom(Elements(lap_list),
                            SessionTags(activity_id, act_type, act_name),
                            ts, 1, << >>)
    IN  IF ~ Truthy(splits_data) \/ splits_data.t # "dict" THEN Built(<< >>)
        ELSE Laps(Or(Or(get(splits_data, "lapDTOs", None).val,
                        get(splits_data, "splitSummaries", None).val),
                     PyList(<< >>)))

\* field_map of build_activity_hr_zone_points
ZoneFieldMap ==
    << << "secsInZone", "secs_in_zone" >>,
       << "zoneLowBoundary", "zone_low_bpm" >>,
       << "zoneHighBoundary", "zone_high_bpm" >> >>

\* for zone in zones, from position k
RECURSIVE ZonesFrom(_, _, _, _, _)
ZonesFrom(zones, tags, ts, k, points) ==
    IF k > Len(zones) THEN Built(points)
    ELSE LET Rest(more) == ZonesFrom(zones, tags, ts, k + 1, more)
             Fielded(zone_num, fields) ==
                 IF fields.exc # "none" THEN Failed(fields.exc)
                 ELSE Rest(Appended(points, "activity_hr_zone",
                                    Tag(tags, "zone", PyStr(str(zone_num))),
                                    ts, fields.items))
             Numbered(zone, zone_num) ==
                 IF zone_num = None THEN Rest(points)
                 ELSE Fielded(zone_num, FieldsFrom(zone, ZoneFieldMap))
         IN  IF zones[k].t # "dict" THEN Rest(points)
             ELSE Numbered(zones[k], Or(get(zones[k], "zoneNumber", None).val,
                                        get(zones[k], "zone", None).val))

\* build_activity_hr_zone_points(hr_zones_data, activity_id, act_type, act_name, ts)
build_activity_hr_zone_points(hr_zones_data, activity_id, act_type, act_name, ts) ==
    LET Zones(zones) ==
            IF zones.t # "list" THEN Built(<< >>)
            ELSE ZonesFrom(Elements(zones),
                           SessionTags(activity_id, act_type, act_name),
                           ts, 1, << >>)
    IN  IF ~ Truthy(hr_zones_data) \/ hr_zones_data.t \notin { "list", "dict" }
        THEN Built(<< >>)
        ELSE IF hr_zones_data.t = "dict"
        THEN Zones(Or(Or(get(hr_zones_data, "hrTimeInZones", None).val,
                         get(hr_zones_data, "heartRateZones", None).val),
                      PyList(<< >>)))
        ELSE Zones(hr_zones_data)

\* field_map of build_activity_weather_points
WeatherFieldMap ==
    << << "temperature", "temperature_c" >>,
       << "apparentTemperature", "feels_like_c" >>,
       << "dewPoint", "dew_point_c" >>,
       << "relativeHumidity", "humidity_pct" >>,
       << "windDirection", "wind_direction_deg" >>,
       << "windSpeed", "wind_speed_mps" >>,
       << "windGust", "wind_gust_mps" >>,
       << "weatherTypeDTO", Suppressed >> >>

\* build_activity_weather_points(weather_data, activity_id, act_type, act_name, ts)
build_activity_weather_points(weather_data, activity_id, act_type, act_name, ts) ==
    IF ~ Truthy(weather_data) \/ weather_data.t # "dict" THEN Built(<< >>)
    ELSE OnePoint("activity_weather",
                  SessionTags(activity_id, act_type, act_name), ts,
                  FieldsFrom(weather_data, WeatherFieldMap))

DirectLatitude ==
    PyStr(<< "d", "i", "r", "e", "c", "t", "L", "a", "t", "i", "t", "u", "d", "e" >>)

DirectLongitude ==
    PyStr(<< "d", "i", "r", "e", "c", "t", "L", "o", "n", "g", "i", "t", "u", "d", "e" >>)

\* key_to_idx[key] = idx
Assigned(table, key, idx) ==
    IF \E j \in DOMAIN table : table[j].key = key
    THEN [j \in DOMAIN table |->
             IF table[j].key = key THEN [key |-> key, idx |-> idx] ELSE table[j]]
    ELSE Append(table, [key |-> key, idx |-> idx])

\* key_to_idx.get(key)
Lookup(table, key) ==
    IF \E j \in DOMAIN table : table[j].key = key
    THEN table[CHOOSE j \in DOMAIN table : table[j].key = key].idx
    ELSE None

\* for desc in descriptors, from position k: the index of each metric
RECURSIVE KeyToIdx(_, _, _)
KeyToIdx(descriptors, k, table) ==
    IF k > Len(descriptors) THEN Built(table)
    ELSE LET Rest(more) == KeyToIdx(descriptors, k + 1, more)
             Both(key, idx) ==
                 IF key.exc # "none" THEN Failed(key.exc)
                 ELSE IF key.val # None /\ idx.val # None
                 THEN Rest(Assigned(table, key.val, idx.val))
                 ELSE Rest(table)
         IN  Both(get(descriptors[k], "key", None),
                  get(descriptors[k], "metricsIndex", None))

\* the int an index holds
IntOf(val) == val.mant * (10 ^ val.exp)

\* the additional numeric metrics of one sample, from position k of key_to_idx
RECURSIVE MetricsFrom(_, _, _, _)
MetricsFrom(metrics, table, k, fields) ==
    IF k > Len(table) THEN Built(fields)
    ELSE LET Rest(more) == MetricsFrom(metrics, table, k + 1, more)
             Coerced(fval) ==
                 IF fval.exc # "none" THEN Failed(fval.exc)
                 ELSE IF fval.val = None THEN Rest(fields)
                 ELSE Rest(Append(fields, [key |-> table[k].key.s,
                                           val |-> fval.val]))
             Metric(val) ==
                 IF val = None THEN Rest(fields) ELSE Coerced(_safe_float(val))
         IN  IF table[k].key \in { DirectLatitude, DirectLongitude }
             THEN Rest(fields)
             ELSE IF IntOf(table[k].idx) >= Len(metrics) THEN Rest(fields)
             ELSE Metric(metrics[IntOf(table[k].idx) + 1])

\* for point_num, entry in enumerate(metrics_list), from position k =
\* point_num + 1 (an index is a position from the start of a list)
RECURSIVE TrackFrom(_, _, _, _, _, _, _, _)
TrackFrom(entries, table, lat_idx, lon_idx, tags, ts, k, points) ==
    IF k > Len(entries) THEN Built(points)
    ELSE LET Rest(more) ==
                 TrackFrom(entries, table, lat_idx, lon_idx, tags, ts, k + 1, more)
             Fielded(fields) ==
                 IF fields.exc # "none" THEN Failed(fields.exc)
                 ELSE Rest(Append(points, SessionPoint("activity_track",
                           Tag(tags, "point_idx", PyStr(str(PyInt(k - 1, 0)))),
                           ts, fields.items)))
             Placed(metrics, lat, lon) ==
                 IF lat.exc # "none" THEN Failed(lat.exc)
                 ELSE IF lon.exc # "none" THEN Failed(lon.exc)
                 ELSE IF lat.val = None \/ lon.val = None THEN Rest(points)
                 ELSE Fielded(MetricsFrom(metrics, table, 1,
                          << [key |-> << "l", "a", "t" >>, val |-> lat.val],
                             [key |-> << "l", "o", "n" >>, val |-> lon.val] >>))
             Sample(metrics) ==
                 IF ~ Truthy(metrics) THEN Rest(points)
                 ELSE IF metrics.t # "list" THEN Failed("TypeError")
                 ELSE IF lat_idx >= Len(metrics.items) \/ lon_idx >= Len(metrics.items)
                 THEN Rest(points)
                 ELSE Placed(Elements(metrics),
                             _safe_float(metrics.items[lat_idx + 1].val),
                             _safe_float(metrics.items[lon_idx + 1].val))
         IN  Sample(IF entries[k].t = "dict"
                    THEN get(entries[k], "metrics", None).val ELSE None)

\* build_activity_track_points(detail_data, activity_id, act_type, act_name, ts)
build_activity_track_points(detail_data, activity_id, act_type, act_name, ts) ==
    LET Indexed(entries, table, lat_idx, lon_idx) ==
            IF lat_idx = None \/ lon_idx = None THEN Built(<< >>)
            ELSE IF entries.exc # "none" THEN Failed(entries.exc)
            ELSE TrackFrom(entries.items, table, IntOf(lat_idx), IntOf(lon_idx),
                           Tag(Tag(Tag({}, "activity_id", PyStr(str(activity_id))),
                                   "type", act_type), "name", act_name),
                           ts, 1, << >>)
        Keyed(entries, table) ==
            IF table.exc # "none" THEN Failed(table.exc)
            ELSE Indexed(entries, table.items,
                         Lookup(table.items, DirectLatitude),
                         Lookup(table.items, DirectLongitude))
        Listed(descriptors, metrics_list) ==
            IF descriptors.exc # "none" THEN Failed(descriptors.exc)
            ELSE Keyed(Iterate(metrics_list), KeyToIdx(descriptors.items, 1, << >>))
        Described(descriptors, metrics_list) ==
            IF ~ Truthy(descriptors) \/ ~ Truthy(metrics_list) THEN Built(<< >>)
            ELSE Listed(Iterate(descriptors), metrics_list)
    IN  IF ~ Truthy(detail_data) \/ detail_data.t # "dict" THEN Built(<< >>)
        ELSE Described(get(detail_data, "metricDescriptors", None).val,
                       get(detail_data, "activityDetailMetrics", None).val)

-----------------------------------------------------------------------------
(* The upstream's activity data: the list of a day and the records of one  *)
(* session.  The shape of the list follows the day, so that a window meets *)
(* a day without sessions, a day with one, a day with two sessions of the  *)
(* same start second, type and name, and a day whose list has an entry     *)
(* without id and an entry whose start time does not parse.                *)

Session(id, started, type, name, distance) ==
    PyDict(<< << "activityId", id >>,
              << "startTimeLocal", started >>,
              << "activityType", PyDict(<< << "typeKey", type >> >>) >>,
              << "activityName", name >>,
              << "distance", distance >> >>)

\* the text of a start time on the given day
StartAt(day, time) == PyStr(strftime(day, TRUE) \o << " " >> \o time)

Morning == << "0", "7", ":", "3", "0", ":", "0", "0" >>

Evening == << "1", "8", ":", "0", "0", ":", "0", "5" >>

Running == PyStr(<< "r", "u", "n", "n", "i", "n", "g" >>)

Cycling == PyStr(<< "c", "y", "c", "l", "i", "n", "g" >>)

Lap == PyStr(<< "L", "a", "p" >>)

\* garmin_client.get_activities_by_date(day_str, day_str)
get_activities_by_date(day) ==
    CASE day % 4 = 0 -> PyList(<< >>)
      [] day % 4 = 1 ->
             PyList(<< Session(PyInt(101, 0), StartAt(day, Morning), Running,
                               Lap, PyInt(5000, 0)) >>)
      [] day % 4 = 2 ->
             PyList(<< Session(PyInt(101, 0), StartAt(day, Morning), Running,
                               Lap, PyInt(5000, 0)),
                       Session(PyInt(102, 0), StartAt(day, Morning), Running,
                               Lap, PyInt(8000, 0)) >>)
      [] OTHER ->
             PyList(<< Session(None, StartAt(day, Morning), Running,
                               Lap, PyInt(3000, 0)),
                       Session(PyInt(103, 0), PyStr(<< "n", "/", "a" >>), Cycling,
                               Lap, PyInt(20000, 0)),
                       Session(PyInt(104, 0), StartAt(day, Evening), Cycling,
                               Lap, PyInt(30000, 0)) >>)

\* garmin_client.get_activity(activity_id)
get_activity(activity_id) ==
    PyDict(<< << "summaryDTO",
                 PyDict(<< << "trainingEffect", PyFloat(31, 0 - 1) >>,
                           << "lapCount", PyInt(MaxSamples, 0) >> >>) >> >>)

\* garmin_client.get_activity_splits(activity_id)
get_activity_splits(activity_id) ==
    PyDict(<< << "lapDTOs",
                 PyList([k \in 1..MaxSamples |->
                     PyDict(<< << "distance", PyInt(1000, 0) >>,
                               << "messageIndex", PyInt(k - 1, 0) >> >>)]) >> >>)

\* garmin_client.get_activity_hr_in_timezones(activity_id)
get_activity_hr_in_timezones(activity_id) ==
    PyList([k \in 1..MaxSamples |->
        PyDict(<< << "zoneNumber", PyInt(k, 0) >>,
                  << "secsInZone", PyInt(60 * k, 0) >> >>)])

\* garmin_client.get_activity_weather(activity_id): sessions with an even
\* id have no weather record
get_activity_weather(activity_id) ==
    IF Number(activity_id) % 2 = 0 THEN None
    ELSE PyDict(<< << "temperature", PyInt(20, 0) >>,
                   << "weatherTypeDTO", PyDict(<< >>) >> >>)

\* garmin_client.get_activity_details(activity_id, maxpoly=4000)
get_activity_details(activity_id) ==
    PyDict(<< << "metricDescriptors",
                 PyList(<< PyDict(<< << "key", DirectLatitude >>,
                                     << "metricsIndex", PyInt(0, 0) >> >>),
                           PyDict(<< << "key", DirectLongitude >>,
                                     << "metricsIndex", PyInt(1, 0) >> >>) >>) >>,
              << "activityDetailMetrics",
                 PyList([k \in 1..MaxSamples |->
                     PyDict(<< << "metrics",
                                  PyList(<< PyFloat(4750 + k, 0 - 2),
                                            PyFloat(850 + k, 0 - 2) >>) >> >>)]) >> >>)

-----------------------------------------------------------------------------
(* fetch_and_write: the pipeline of one day.                               *)

\* names of the collectors list, in its order
Collectors == << "daily stats", "sleep", "heart rate", "body composition",
                 "respiration", "SpO2", "stress", "HRV", "hydration",
                 "training readiness", "training status", "max metrics",
                 "endurance score", "hill score", "fitness age", "floors" >>

\* the names print_sync_summary lists
SummaryNames == { Collectors[k] : k \in 1..Len(Collectors) } \cup { "activities" }

Index(name) == IF name = "activities" THEN Len(Collectors) + 1
               ELSE CHOOSE k \in 1..Len(Collectors) : Collectors[k] = name

Exc(type, status) == [type |-> type, status |-> status]

NoExc == Exc("none", 0)

\* a classifier that trusts the status of any exception that carries one
_is_no_data_not_found_status(exc) == exc.status = 404

\* _is_no_data_not_found(exc)
_is_no_data_not_found(exc) ==
    IF exc.type = "ApiException" THEN FALSE
    ELSE IF exc.type = "HTTPError" THEN exc.status = 404
    ELSE FALSE

\* what the environment does to one category on one day: nothing, or an
\* exception raised by the fetch or by the sink write
NoFault == [stage |-> "none", exc |-> NoExc]

FaultKinds == { [stage |-> "fetch", exc |-> Exc("HTTPError", 404)],
                [stage |-> "fetch", exc |-> Exc("HTTPError", 500)],
                [stage |-> "fetch", exc |-> Exc("ConnectionError", 0)],
                [stage |-> "write", exc |-> Exc("ApiException", 404)] }

\* the categories the environment fails: a collector with others before and
\* after it, and the activities
FaultyCategories == { "sleep", "activities" }

FaultSlots == { [cat |-> c, stage |-> k.stage, exc |-> k.exc] :
                    c \in FaultyCategories, k \in FaultKinds }

PlanCats(plan) == { f.cat : f \in plan }

\* the failure plans of one day with at most b failures, one per category
RECURSIVE Plans(_)
Plans(b) ==
    IF b <= 0 THEN { {} }
    ELSE LET P == Plans(b - 1) IN
         P \cup { p \cup {f} : p \in P, f \in FaultSlots }

PlansUpTo(b) == { p \in Plans(b) : Cardinality(PlanCats(p)) = Cardinality(p) }

\* the plans by budget, computed once
PlanTable == [b \in 0..(MaxFaults + 1) |-> PlansUpTo(b)]

DayPlans(b) == PlanTable[b]

FaultOf(plan, name) ==
    IF \E f \in plan : f.cat = name
    THEN LET f == CHOOSE g \in plan : g.cat = name
         IN  [stage |-> f.stage, exc |-> f.exc]
    ELSE NoFault

\* number of points the builder makes of the day's record of a category
NormalPoints(name, day) ==
    IF name = "activities"
    THEN Len(build_activity_points(get_activities_by_date(day)).items)
    ELSE (Index(name) + day) % 3

EmptyDict == [k \in {} |-> 0]

DictGet(d, k) == IF k \in DOMAIN d THEN d[k] ELSE 0

DictAdd(d, k, n) == (k :> (DictGet(d, k) + n)) @@ d

RECURSIVE DictMerge(_, _, _)
DictMerge(into, from, keys) ==
    IF keys = {} THEN into
    ELSE LET k == CHOOSE x \in keys : TRUE
         IN  DictMerge(DictAdd(into, k, from[k]), from, keys \ {k})

\* total, errors, counts of fetch_and_write, and the calls it made
EmptyResult == [total |-> 0, errors |-> << >>, counts |-> EmptyDict,
                fetched |-> << >>, sinkCalls |-> << >>, written |-> << >>,
                sub |-> << >>, debug |-> << >>, points |-> << >>]

\* a call whose argument is evaluated, once, before the call is made, as
\* Python evaluates it
Strict(val, Call(_)) == CHOOSE r \in { Call(x) : x \in { val } } : TRUE

\* the except clause of a category: benign not-found, or a recorded error
Except(acc, name, exc) ==
    IF _is_no_data_not_found(exc) THEN acc
    ELSE [acc EXCEPT !.errors = Append(@, [name |-> name, exc |-> exc])]

\* a try block that counts the batch before it hands it to the sink
Collect_early(acc, name, day, fault) ==
    LET got == [acc EXCEPT !.fetched = Append(@, name)]
        Counted(pts) ==
            [got EXCEPT !.sinkCalls = Append(@, [name |-> name, n |-> pts]),
                        !.total = @ + pts,
                        !.counts = DictAdd(@, name, pts)]
        Built_of(pts) ==
            IF pts > 0
            THEN IF fault.stage = "write" THEN Except(Counted(pts), name, fault.exc)
                 ELSE [Counted(pts) EXCEPT
                           !.written = Append(@, [name |-> name, n |-> pts])]
            ELSE got
    IN  IF fault.stage = "fetch" THEN Except(got, name, fault.exc)
        ELSE Built_of(NormalPoints(name, day))

\* a try block that hands every batch to the sink, also an empty one
Collect_unguarded(acc, name, day, fault) ==
    LET got == [acc EXCEPT !.fetched = Append(@, name)]
        Call(pts) ==
            [got EXCEPT !.sinkCalls = Append(@, [name |-> name, n |-> pts])]
        Built_of(pts) ==
            IF fault.stage = "write" THEN Except(Call(pts), name, fault.exc)
            ELSE [Call(pts) EXCEPT
                      !.total = @ + pts,
                      !.counts = DictAdd(@, name, pts),
                      !.written = Append(@, [name |-> name, n |-> pts])]
    IN  IF fault.stage = "fetch" THEN Except(got, name, fault.exc)
        ELSE Built_of(NormalPoints(name, day))

\* the try block of one category: collect, write a non-empty batch, count
Collect(acc, name, day, fault) ==
    LET got == [acc EXCEPT !.fetched = Append(@, name)]
        Call(pts) ==
            [got EXCEPT !.sinkCalls = Append(@, [name |-> name, n |-> pts])]
        Built_of(pts) ==
            IF pts > 0
            THEN IF fault.stage = "write" THEN Except(Call(pts), name, fault.exc)
                 ELSE [Call(pts) EXCEPT
                           !.total = @ + pts,
                           !.counts = DictAdd(@, name, pts),
                           !.written = Append(@, [name |-> name, n |-> pts])]
            ELSE got
    IN  IF fault.stage = "fetch" THEN Except(got, name, fault.exc)
        ELSE Built_of(NormalPoints(name, day))

\* a loop over the collectors that gives up at the first recorded error
RECURSIVE CollectorLoop_abort(_, _, _, _)
CollectorLoop_abort(acc, k, day, plan) ==
    IF k > Len(Collectors) \/ acc.errors # << >> THEN acc
    ELSE CollectorLoop_abort(
             Collect(acc, Collectors[k], day, FaultOf(plan, Collectors[k])),
             k + 1, day, plan)

\* for name, collect in collectors, from the k-th on
RECURSIVE CollectorLoop(_, _, _, _)
CollectorLoop(acc, k, day, plan) ==
    IF k > Len(Collectors) THEN acc
    ELSE LET Rest(done) == CollectorLoop(done, k + 1, day, plan)
         IN  Strict(Collect(acc, Collectors[k], day, FaultOf(plan, Collectors[k])),
                    Rest)

\* the names of detail_collectors, in order
DetailNames == << "activity details", "activity splits", "activity HR zones",
                 "activity weather", "activity track" >>

\* dcollect() of the entry of detail_collectors named dname
DetailPoints(dname, act_id, h) ==
    CASE dname = "activity details" ->
             build_activity_detail_points(get_activity(str(act_id)),
                 act_id, h.act_type, h.act_name, h.ts)
      [] dname = "activity splits" ->
             build_activity_split_points(get_activity_splits(str(act_id)),
                 act_id, h.act_type, h.act_name, h.ts)
      [] dname = "activity HR zones" ->
             build_activity_hr_zone_points(get_activity_hr_in_timezones(str(act_id)),
                 act_id, h.act_type, h.act_name, h.ts)
      [] dname = "activity weather" ->
             build_activity_weather_points(get_activity_weather(str(act_id)),
                 act_id, h.act_type, h.act_name, h.ts)
      [] dname = "activity track" ->
             build_activity_track_points(get_activity_details(str(act_id)),
                 act_id, h.act_type, h.act_name, h.ts)

\* what the environment does to one detail collector of one session
DetailFaultOf(plan, dname, act_id) ==
    IF \E f \in plan : "act" \in DOMAIN f /\ f.cat = dname /\ f.act = act_id
    THEN LET f == CHOOSE g \in plan :
                      "act" \in DOMAIN g /\ g.cat = dname /\ g.act = act_id
         IN  [stage |-> f.stage, exc |-> f.exc]
    ELSE NoFault

\* an except clause of a detail collector that records the exception as
\* the except clause of a category does
DetailExcept_recorded(acc, dname, act_id, exc) ==
    [acc EXCEPT !.debug = Append(@, [name |-> dname, act |-> act_id, exc |-> exc]),
                !.errors = Append(@, [name |-> dname, exc |-> exc])]

\* except Exception as dexc: a line of the debug log, nothing else
DetailExcept(acc, dname, act_id, exc) ==
    [acc EXCEPT !.debug = Append(@, [name |-> dname, act |-> act_id, exc |-> exc])]

\* the try block of one detail collector of one session
Detail(acc, dname, act_id, h, fault) ==
    LET tried == [acc EXCEPT !.sub = Append(@, [name |-> dname, act |-> act_id])]
        Call(n) == [tried EXCEPT !.sinkCalls = Append(@, [name |-> dname, n |-> n])]
        Wrote(dpts) ==
            IF dpts = << >> THEN tried
            ELSE IF fault.stage = "write"
            THEN DetailExcept(Call(Len(dpts)), dname, act_id, fault.exc)
            ELSE [Call(Len(dpts)) EXCEPT
                      !.total = @ + Len(dpts),
                      !.counts = DictAdd(@, dname, Len(dpts)),
                      !.written = Append(@, [name |-> dname, n |-> Len(dpts)]),
                      !.points = @ \o dpts]
        Collected(built) ==
            IF built.exc # "none"
            THEN DetailExcept(tried, dname, act_id, Exc(built.exc, 0))
            ELSE Wrote(built.items)
    IN  IF fault.stage = "fetch" THEN DetailExcept(tried, dname, act_id, fault.exc)
        ELSE Collected(DetailPoints(dname, act_id, h))

\* a loop over detail_collectors that an exception of a collector leaves
RECURSIVE DetailLoop_abort(_, _, _, _, _)
DetailLoop_abort(acc, act_id, h, j, plan) ==
    IF j > Len(DetailNames) THEN acc
    ELSE LET Next_collector(done) ==
                 IF Len(done.debug) > Len(acc.debug) THEN done
                 ELSE DetailLoop_abort(done, act_id, h, j + 1, plan)
         IN  Next_collector(Detail(acc, DetailNames[j], act_id, h,
                                   DetailFaultOf(plan, DetailNames[j], act_id)))

\* for dname, dcollect in detail_collectors, from the j-th on
RECURSIVE DetailLoop(_, _, _, _, _)
DetailLoop(acc, act_id, h, j, plan) ==
    IF j > Len(DetailNames) THEN acc
    ELSE LET Rest(done) == DetailLoop(done, act_id, h, j + 1, plan)
         IN  Strict(Detail(acc, DetailNames[j], act_id, h,
                           DetailFaultOf(plan, DetailNames[j], act_id)),
                    Rest)

\* for act in (activities or []), from the k-th entry on; an exception
\* outside the detail collectors is one of the activities block
RECURSIVE SessionLoop(_, _, _, _)
SessionLoop(acc, acts, k, plan) ==
    IF k > Len(acts) THEN acc
    ELSE LET Rest(more) == SessionLoop(more, acts, k + 1, plan)
             Entry(got, h, detailed) ==
                 IF got.exc # "none" THEN Except(acc, "activities", Exc(got.exc, 0))
                 ELSE IF ~ Truthy(got.val) THEN Rest(acc)
                 ELSE IF h.exc # "none" THEN Except(acc, "activities", Exc(h.exc, 0))
                 ELSE IF ~ h.ok THEN Rest(acc)
                 ELSE Strict(detailed, Rest)
         IN  Entry(get(acts[k], "activityId", None), Header(acts[k]),
                   DetailLoop(acc, get(acts[k], "activityId", None).val,
                              Header(acts[k]), 1, plan))

\* for act in (activities or []), and what follows it in the block
Sessions(at, acts, plan) ==
    IF acts.exc # "none" THEN Except(at, "activities", Exc(acts.exc, 0))
    ELSE SessionLoop(at, acts.items, 1, plan)

\* the count of a written batch of the list's points
ActivitiesCounted(got, pts) ==
    [got EXCEPT !.sinkCalls = Append(@, [name |-> "activities", n |-> Len(pts)]),
                !.total = @ + Len(pts),
                !.counts = DictAdd(@, "activities", Len(pts)),
                !.written = Append(@, [name |-> "activities", n |-> Len(pts)]),
                !.points = @ \o pts]

\* if pts: the write of the list's points and their count; then the sessions
ActivitiesWritten(got, activities, pts, fault, plan) ==
    IF pts # << >> /\ fault.stage = "write"
    THEN Except([got EXCEPT !.sinkCalls =
                     Append(@, [name |-> "activities", n |-> Len(pts)])],
                "activities", fault.exc)
    ELSE Sessions(IF pts = << >> THEN got ELSE ActivitiesCounted(got, pts),
                  Iterate(Or(activities, PyList(<< >>))), plan)

\* pts = build_activity_points(activities)
ActivitiesBuilt(got, activities, built, fault, plan) ==
    IF built.exc # "none" THEN Except(got, "activities", Exc(built.exc, 0))
    ELSE ActivitiesWritten(got, activities, built.items, fault, plan)

\* activities = garmin_client.get_activities_by_date(day_str, day_str)
ActivitiesFetched(got, activities, fault, plan) ==
    IF fault.stage = "fetch" THEN Except(got, "activities", fault.exc)
    ELSE ActivitiesBuilt(got, activities, build_activity_points(activities),
                         fault, plan)

\* the activities block: the list of the day, its points, then the detail
\* collectors of each session
Activities(acc, day, plan) ==
    ActivitiesFetched([acc EXCEPT !.fetched = Append(@, "activities")],
                      get_activities_by_date(day), FaultOf(plan, "activities"),
                      plan)

\* the collectors of a day, then the activities block
Pipeline(day, plan) ==
    Activities(CollectorLoop(EmptyResult, 1, day, plan), day, plan)

\* fetch_and_write(garmin_client, influx_write_api, bucket, org, day_str)
\* (the upstream reads the day out of day_str)
fetch_and_write(day_str, plan) == Pipeline(strptime(day_str).date, plan)

-----------------------------------------------------------------------------
(* main: plan the window, sync each day, commit the cursor.                *)

\* the first date a run is started on
Epoch == ymd2ord(2024, 6, 11)

Horizon == Epoch + MaxAdvance

\* the positional date arguments tried: a past day, a day to come, and text
\* that names no day
DateArgs == { << "2", "0", "2", "4", "-", "0", "6", "-", "1", "0" >>,
              << "2", "0", "2", "4", "-", "0", "7", "-", "0", "1" >>,
              << "2", "0", "2", "4", "-", "0", "6", "-", "3", "1" >> }

\* the --days values tried: none, one, a window of several days, and one
\* day more than the calendar has before today
DayCounts == { 0, 1, MaxWindow, Horizon + 1 }

\* argparse's namespace: the positional date (empty when it is not given),
\* --days (given or not, and its value) and --backfill
Args(date, given, n, backfill) ==
    [date |-> date, days |-> [given |-> given, n |-> n], backfill |-> backfill]

\* python catgar.py
NoArgs == Args(<< >>, FALSE, 0, FALSE)

\* the command lines tried: each selector alone, none, and the combinations
\* of two and of three selectors
Invocations ==
    { NoArgs, Args(<< >>, FALSE, 0, TRUE) }
    \cup { Args(d, FALSE, 0, FALSE) : d \in DateArgs }
    \cup { Args(<< >>, TRUE, n, FALSE) : n \in DayCounts }
    \cup { Args(<< "2", "0", "2", "4", "-", "0", "6", "-", "1", "0" >>,
                 g, IF g THEN MaxWindow ELSE 0, b) : g, b \in BOOLEAN }
    \cup { Args(<< >>, TRUE, MaxWindow, TRUE) }

\* the if / elif chain of main over args
Dispatch(a) ==
    IF a.date # << >> THEN "date"
    ELSE IF a.backfill THEN "backfill"
    ELSE IF a.days.given THEN "days"
    ELSE "auto"

\* upstream histories the backfill meets: none, or every day from d0 on
Histories == { {} } \cup { d0..Horizon : d0 \in { Horizon - 1, Horizon } }

\* state files a run may find
InitFiles ==
    { File(k, << >>) : k \in { "missing", "json_list" } }
    \cup { File("obj_key_string", strftime(d, TRUE)) :
               d \in { Horizon - MaxWindow, Horizon - 2, Horizon, Horizon + 1 } }

NoRun == [ran |-> FALSE, mode |-> "none", start |-> 0, end |-> 0,
          outcome |-> "none", failed |-> FALSE, cursor |-> "None"]

\* what the finished run leaves for the next one to be compared with
Summary ==
    IF pc = "done"
    THEN [ran |-> TRUE, mode |-> mode, start |-> start, end |-> end,
          outcome |-> outcome, failed |-> all_errors # << >>,
          cursor |-> read_last_sync(cursorAtStart).kind]
    ELSE prev

\* a run is started on day t in mode m: the locals of main are fresh
Begin(t, m) ==
    /\ pc \in { "idle", "done" }
    /\ runsLeft > 0
    /\ runsLeft' = runsLeft - 1
    /\ clock' = t
    /\ today' = t
    /\ mode' = m
    /\ prev' = Summary
    /\ cursorAtStart' = stateFile
    /\ cursorWrites' = 0
    /\ i' = 0
    /\ grand_total' = 0
    /\ all_errors' = << >>
    /\ grand_counts' = EmptyDict
    /\ dayLog' = << >>
    /\ UNCHANGED << padYear, args, stateFile, faultsLeft, io, fnCall >>

\* the process ends before the day loop
Ends(how, code) ==
    /\ pc' = "done"
    /\ outcome' = how
    /\ exit_code' = code

\* the window is known: days = (end - start).days + 1
Window(s, e) ==
    /\ start' = s
    /\ end' = e
    /\ days' = (e - s) + 1
    /\ pc' = "sync"
    /\ outcome' = "running"
    /\ exit_code' = 0

\* python catgar.py DATE
PlanDate ==
    \E t \in clock..Horizon, arg \in { args.date } :
        /\ Dispatch(args) = "date"
        /\ Begin(t, "date")
        /\ cursorReads' = 0
        /\ IF strptime(arg).ok
           THEN Window(strptime(arg).date, strptime(arg).date)
           ELSE /\ Ends("crashed", 1)
                /\ UNCHANGED << start, end, days >>
        /\ UNCHANGED << LocatorVars, presence >>

\* python catgar.py --backfill: the locator is entered
PlanBackfill ==
    \E t \in clock..Horizon, h \in Histories :
        /\ Dispatch(args) = "backfill"
        /\ Begin(t, "backfill")
        /\ cursorReads' = 0
        /\ presence' = h
        /\ earliest' = t - BACKFILL_MAX_DAYS
        /\ latest' = t
        /\ lpc' = "enter"
        /\ probes' = << >>
        /\ pc' = "locate"
        /\ outcome' = "running"
        /\ exit_code' = 0
        /\ UNCHANGED << start, end, days, low, high, located >>

\* the locator has returned: the window is its result through today
BackfillPlanned ==
    /\ pc = "locate"
    /\ lpc = "returned"
    /\ Window(located, today)
    /\ lpc' = "off"
    /\ UNCHANGED << clock, padYear, args, stateFile, mode, today, i, grand_total,
                    all_errors, grand_counts, faultsLeft, runsLeft, cursorAtStart,
                    cursorReads, cursorWrites, dayLog, prev, earliest, latest,
                    low, high, probes, presence, located, io, fnCall >>

\* a date that datetime.date can hold: 0001-01-01 .. 9999-12-31
InCalendar(d) == d >= 1 /\ d <= ymd2ord(9999, 12, 31)

\* start = today - timedelta(days=args.days - 1)
DaysStart(t, n) == t - (n - 1)

\* python catgar.py --days N
PlanDays ==
    \E t \in clock..Horizon, n \in { args.days.n } :
        /\ Dispatch(args) = "days"
        /\ Begin(t, "days")
        /\ cursorReads' = 0
        /\ IF InCalendar(DaysStart(t, n))
           THEN Window(DaysStart(t, n), t)
           ELSE /\ Ends("crashed", 1)
                /\ UNCHANGED << start, end, days >>
        /\ UNCHANGED << LocatorVars, presence >>

\* the start of the auto-resume window, given what read_last_sync returned
AutoStart_same(last, t) == IF last.kind = "date" THEN last.date ELSE t

AutoStart(last, t) == IF last.kind = "date" THEN last.date + 1 ELSE t

\* python catgar.py: since the last sync, or today if there is no state
PlanAuto ==
    \E t \in clock..Horizon :
        LET last == read_last_sync(stateFile) IN
        /\ Dispatch(args) = "auto"
        /\ Begin(t, "auto")
        /\ cursorReads' = 1
        /\ IF last.kind = "raise"
           THEN /\ Ends("crashed", 1)
                /\ UNCHANGED << start, end, days >>
           ELSE IF last.kind = "date" /\ AutoStart(last, t) > t
           THEN /\ Ends("nothing_to_do", 0)
                /\ start' = AutoStart(last, t)
                /\ UNCHANGED << end, days >>
           ELSE Window(AutoStart(last, t), t)
        /\ UNCHANGED << LocatorVars, presence >>

\* one iteration of the day loop that skips the fold of the day's errors
Fold_drop(errs, dayErrs) == errs

\* all_errors.extend(errors)
Fold(errs, dayErrs) == errs \o dayErrs

\* one iteration of the day loop: fetch_and_write and the fold of its
\* result, the environment failing the day by one of plans
SyncDayOf(plans) ==
    /\ pc = "sync"
    /\ i < days
    /\ \E plan \in plans, day_str \in { strftime(start + i, padYear) } :
        \E r \in { fetch_and_write(day_str, plan) } :
            /\ grand_total' = grand_total + r.total
            /\ all_errors' = Fold(all_errors, r.errors)
            /\ grand_counts' = DictMerge(grand_counts, r.counts, DOMAIN r.counts)
            /\ dayLog' = Append(dayLog, [date |-> start + i, day |-> day_str,
                                        plan |-> plan, result |-> r])
            /\ faultsLeft' = faultsLeft - Cardinality(plan)
    /\ i' = i + 1
    /\ UNCHANGED << clock, padYear, args, stateFile, pc, outcome, mode, today, start,
                    end, days, exit_code, runsLeft, cursorAtStart, cursorReads,
                    cursorWrites, prev, LocatorVars, presence, io, fnCall >>

\* a day of the run, with failures of its categories
SyncDay == SyncDayOf(DayPlans(faultsLeft))

\* if not all_errors
Clean(errs) == errs = << >>

\* an exit status that reports success whatever the run recorded
ExitStatus_zero(errs) == 0

\* sys.exit(1) if all_errors, else the process ends with status 0
ExitStatus(errs) == IF errs # << >> THEN 1 ELSE 0

\* variant: the commit is reached from inside the day loop
Finish_early ==
    /\ pc = "sync"
    /\ IF Clean(all_errors)
       THEN /\ stateFile' = write_last_sync(end, padYear, stateFile)
            /\ cursorWrites' = cursorWrites + 1
       ELSE UNCHANGED << stateFile, cursorWrites >>
    /\ pc' = "done"
    /\ outcome' = "completed"
    /\ exit_code' = ExitStatus(all_errors)
    /\ UNCHANGED << clock, padYear, args, mode, today, start, end, days, i,
                    grand_total, all_errors, grand_counts, faultsLeft, runsLeft,
                    cursorAtStart, cursorReads, dayLog, prev, LocatorVars,
                    presence, io, fnCall >>

\* after the day loop: record the last successful sync date, exit
Finish ==
    /\ pc = "sync"
    /\ ~ (i < days)
    /\ IF Clean(all_errors)
       THEN /\ stateFile' = write_last_sync(end, padYear, stateFile)
            /\ cursorWrites' = cursorWrites + 1
       ELSE UNCHANGED << stateFile, cursorWrites >>
    /\ pc' = "done"
    /\ outcome' = "completed"
    /\ exit_code' = ExitStatus(all_errors)
    /\ UNCHANGED << clock, padYear, args, mode, today, start, end, days, i,
                    grand_total, all_errors, grand_counts, faultsLeft, runsLeft,
                    cursorAtStart, cursorReads, dayLog, prev, LocatorVars,
                    presence, io, fnCall >>

NoIO == [op |-> "none", date |-> 0, result |-> ReturnedNone, written |-> 0]

\* no builder was applied yet
NoCall == [fn |-> "none"]

\* main is not started yet: day t, n runs to come, a state file of files
MainIdle(t, n, files) ==
    /\ clock = t
    /\ stateFile \in files
    /\ pc = "idle"
    /\ outcome = "none"
    /\ mode = "none"
    /\ today = t
    /\ start = 0
    /\ end = 0
    /\ days = 0
    /\ i = 0
    /\ grand_total = 0
    /\ all_errors = << >>
    /\ grand_counts = EmptyDict
    /\ exit_code = 0
    /\ faultsLeft = MaxFaults
    /\ runsLeft = n
    /\ cursorAtStart = stateFile
    /\ cursorReads = 0
    /\ cursorWrites = 0
    /\ dayLog = << >>
    /\ prev = NoRun

\* find_oldest_available_date is not entered
LocatorIdle ==
    /\ lpc = "off"
    /\ earliest = 0
    /\ latest = 0
    /\ low = 0
    /\ high = 0
    /\ probes = << >>
    /\ presence = {}
    /\ located = 0

\* one run of main on day Horizon, from any state file
Init ==
    /\ padYear = FALSE
    /\ args \in Invocations
    /\ MainIdle(Horizon, 1, InitFiles)
    /\ LocatorIdle
    /\ io = NoIO
    /\ fnCall = NoCall

MainVars == << clock, stateFile, pc, outcome, mode, today, start, end, days, i,
               grand_total, all_errors, grand_counts, exit_code, faultsLeft,
               runsLeft, cursorAtStart, cursorReads, cursorWrites, dayLog, prev >>

\* a step of find_oldest_available_date
LocStep ==
    /\ \/ LocEnter
       \/ LocProbeEarliest
       \/ LocProbeLatest
       \/ LocLoop
       \/ LocReturn
    /\ UNCHANGED << MainVars, padYear, args, presence, io, fnCall >>

\* a step of the locator while main waits for its result
Locate == pc = "locate" /\ LocStep

Next ==
    \/ PlanDate
    \/ PlanBackfill
    \/ PlanDays
    \/ PlanAuto
    \/ Locate
    \/ BackfillPlanned
    \/ SyncDay
    \/ Finish

Spec == Init /\ [][Next]_vars

\* successive auto-resume runs, the calendar advancing between them
InitResume ==
    /\ padYear = FALSE
    /\ args = NoArgs
    /\ MainIdle(Epoch, MaxRuns, InitFiles)
    /\ LocatorIdle
    /\ io = NoIO
    /\ fnCall = NoCall

NextResume ==
    \/ PlanAuto
    \/ SyncDay
    \/ Finish

SpecResume == InitResume /\ [][NextResume]_vars

-----------------------------------------------------------------------------
(* find_oldest_available_date on its own: every range of up to MaxRange    *)
(* days (and the empty range) against every presence function on it.       *)

RangeBase == Epoch - MaxRange

InitLocator ==
    /\ padYear = FALSE
    /\ args = NoArgs
    /\ MainIdle(Epoch, 0, { File("missing", << >>) })
    /\ io = NoIO
    /\ fnCall = NoCall
    /\ lpc = "enter"
    /\ earliest \in { RangeBase - 1, RangeBase }
    /\ latest \in (earliest - 1)..(RangeBase + MaxRange)
    /\ presence \in SUBSET (earliest..latest)
    /\ low = 0
    /\ high = 0
    /\ probes = << >>
    /\ located = 0

NextLocator == LocStep

SpecLocator == InitLocator /\ [][NextLocator]_vars

-----------------------------------------------------------------------------
(* read_last_sync and write_last_sync on their own: any content of the     *)
(* state file, any sequence of writes and reads, either build of strftime. *)

\* last_sync strings a state file may hold
StateTexts == { << "s", "o", "o", "n" >>,
                << >>,
                << "2", "0", "2", "4", "-", "6", "-", "5" >>,
                << "2", "0", "2", "4", "-", "0", "2", "-", "3", "0" >>,
                << "2", "0", "2", "4", "-", "0", "6", "-", "1", "5" >>,
                << "9", "9", "9", "-", "0", "1", "-", "0", "2" >> }

StateFiles ==
    { File(k, << >>) : k \in FileKinds \ { "obj_key_string" } }
    \cup { File("obj_key_string", t) : t \in StateTexts }

\* the dates written: the first and last of the calendar, the days around
\* year 1000, a leap day, a day of the sync window
WriteDates == { ymd2ord(1, 1, 1), ymd2ord(999, 12, 31), ymd2ord(1000, 1, 1),
                ymd2ord(2024, 2, 29), ymd2ord(2024, 6, 15),
                ymd2ord(9999, 12, 31) }

InitState ==
    /\ padYear \in BOOLEAN
    /\ args = NoArgs
    /\ MainIdle(Epoch, 0, StateFiles)
    /\ LocatorIdle
    /\ io = NoIO
    /\ fnCall = NoCall

\* a caller reads the state file
IoRead ==
    /\ io' = [op |-> "read", date |-> 0, result |-> read_last_sync(stateFile),
              written |-> io.written]
    /\ UNCHANGED << MainVars, LocatorVars, padYear, args, presence, fnCall >>

\* a caller writes date d to the state file
IoWrite ==
    \E d \in WriteDates :
        /\ stateFile' = write_last_sync(d, padYear, stateFile)
        /\ io' = [op |-> "write", date |-> d, result |-> ReturnedNone, written |-> d]
        /\ UNCHANGED << clock, pc, outcome, mode, today, start, end, days, i,
                        grand_total, all_errors, grand_counts, exit_code,
                        faultsLeft, runsLeft, cursorAtStart, cursorReads,
                        cursorWrites, dayLog, prev, LocatorVars, padYear, args,
                        presence, fnCall >>

NextState ==
    \/ IoRead
    \/ IoWrite

SpecState == InitState /\ [][NextState]_vars

-----------------------------------------------------------------------------
(* The coercion and the point builders standalone: every input of a        *)
(* bounded set of raw values and records, every function applied to it.    *)

MaxFields == 2

\* the numbers, texts and containers _safe_float is applied to
FloatInputs ==
    { PyInt(42, 0), PyInt(0, 0), PyInt(0 - 3, 0), PyInt(8500, 0),
      PyInt(1, 308), PyInt(1797, 305), PyInt(1798, 305), PyInt(1, 400),
      PyInt(0 - 2, 308),
      PyFloat(314, 0 - 2), PyFloat(995, 0 - 1), PyFloatNamed("nan"),
      PyBool(TRUE), PyBool(FALSE), None,
      PyList(<< >>), PyList(<< PyInt(1, 0), PyInt(2, 0) >>),
      PyDict(<< >>), PyDict(<< << "value", PyInt(1, 0) >> >>),
      PyStr(<< "4", "2" >>), PyStr(<< "9", "9", ".", "5" >>),
      PyStr(<< " ", "7", " " >>), PyStr(<< "+", "5" >>),
      PyStr(<< "-", "3", ".", "0" >>), PyStr(<< "5", "." >>),
      PyStr(<< ".", "5" >>), PyStr(<< "1", "e", "3" >>),
      PyStr(<< "1", "E", "-", "2" >>), PyStr(<< "1", "e", "9", "9", "9" >>),
      PyStr(<< "1", "e", "-", "4", "0", "0" >>),
      PyStr(<< "n", "a", "n" >>), PyStr(<< "-", "i", "n", "f" >>),
      PyStr(<< "I", "n", "f", "i", "n", "i", "t", "y" >>),
      PyStr(<< >>), PyStr(<< " " >>), PyStr(<< "." >>), PyStr(<< "-" >>),
      PyStr(<< "1", "e" >>), PyStr(<< "e", "5" >>),
      PyStr(<< "1", ".", "2", ".", "3" >>), PyStr(<< "9", " ", "9" >>),
      PyStr(<< "n", "o", "t", "_", "a", "_", "n", "u", "m", "b", "e", "r" >>),
      PyStr(<< "2", "0", "2", "4", "-", "0", "6", "-", "0", "1" >>) }

\* the values a field of a raw record holds
RecordValues ==
    { PyInt(42, 0), None, PyStr(<< "3", ".", "1", "4" >>),
      PyStr(<< "b", "a", "d" >>), PyDict(<< << "value", PyInt(80, 0) >> >>),
      PyList(<< PyInt(1, 0) >>), PyInt(1, 400) }

\* the lists of at most n << key, value >> pairs with distinct keys
RECURSIVE PairLists(_, _, _)
PairLists(keys, values, n) ==
    IF n = 0 THEN { << >> }
    ELSE LET shorter == PairLists(keys, values, n - 1)
             longer  == { Append(r, << k, v >>) :
                            r \in { x \in shorter : Len(x) = n - 1 },
                            k \in keys, v \in values }
         IN  shorter \cup
             { r \in longer :
                 \A a, b \in DOMAIN r : a # b => r[a][1] # r[b][1] }

Records(keys, values, n) == { PyDict(p) : p \in PairLists(keys, values, n) }

\* what an upstream call answers instead of a record
NonRecords ==
    { None, PyList(<< >>), PyList(<< PyInt(1, 0) >>), PyStr(<< "b", "a", "d" >>) }

ExtraKeys == { "known", "newField", "calendarDate", "sleepScores" }

ExtraKnownSets == { {}, { "known" }, { "known", "sleepScores" } }

ExtraInputs == Records(ExtraKeys, RecordValues, MaxFields) \cup NonRecords

DailyStatsKeys == { "totalSteps", "restingHeartRate", "newField", "calendarDate" }

\* the daily stats of the end-to-end scenario
DailyStatsExample ==
    PyDict(<< << "totalSteps", PyInt(8500, 0) >>,
              << "restingHeartRate", PyInt(58, 0) >>,
              << "newField", PyInt(42, 0) >> >>)

\* the daily stats of test_daily_stats_bad_value_logged
DailyStatsBadValue ==
    PyDict(<< << "totalSteps", PyStr(<< "b", "a", "d", "_", "v", "a", "l", "u", "e" >>) >>,
              << "restingHeartRate", PyInt(60, 0) >> >>)

DailyStatsInputs ==
    Records(DailyStatsKeys, RecordValues, MaxFields)
    \cup NonRecords \cup { DailyStatsExample, DailyStatsBadValue }

SleepKeys == { "sleepTimeSeconds", "sleepScores", "newField" }

SleepValues ==
    RecordValues
    \cup { PyDict(<< << "overall", PyDict(<< << "value", PyInt(80, 0) >> >>) >>,
                     << "stress", PyInt(75, 0) >> >>) }

SleepInputs ==
    NonRecords
    \cup { PyDict(<< << "dailySleepDTO", x >> >>) :
             x \in Records(SleepKeys, SleepValues, MaxFields) \cup NonRecords }
    \cup { PyDict(<< >>), PyDict(<< << "restlessMomentsCount", PyInt(3, 0) >> >>) }

HrvKeys == { "weeklyAvg", "baseline", "status", "newField" }

HrvValues ==
    (RecordValues \ { PyList(<< PyInt(1, 0) >>) })
    \cup { PyDict(<< << "lowUpper", PyInt(40, 0) >> >>) }

HrvInputs ==
    NonRecords
    \cup Records(HrvKeys, HrvValues, MaxFields)
    \cup { PyDict(<< << "hrvSummary", x >> >>) :
             x \in Records(HrvKeys, HrvValues, MaxFields - 1) \cup NonRecords }

\* the day the builders are applied for
BuildDay == << "2", "0", "2", "4", "-", "0", "6", "-", "0", "1" >>

Applied(fn, arg, known, out) ==
    [fn |-> fn, arg |-> arg, known |-> known, out |-> out]

\* a function is applied to one input; nothing else moves
BuildIdle ==
    /\ fnCall = NoCall
    /\ UNCHANGED << MainVars, LocatorVars, padYear, args, presence, io >>

CallSafeFloat ==
    \E val \in FloatInputs :
        /\ BuildIdle
        /\ fnCall' = Applied("_safe_float", val, {}, _safe_float(val))

CallCollectExtraFields ==
    \E data \in ExtraInputs, known_keys \in ExtraKnownSets :
        /\ BuildIdle
        /\ fnCall' = Applied("_collect_extra_fields", data, known_keys,
                             _collect_extra_fields(data, known_keys))

CallBuildDailyStats ==
    \E stats \in DailyStatsInputs :
        /\ BuildIdle
        /\ fnCall' = Applied("build_daily_stats_points", stats, {},
                             build_daily_stats_points(stats, BuildDay))

CallBuildSleep ==
    \E sleep_data \in SleepInputs :
        /\ BuildIdle
        /\ fnCall' = Applied("build_sleep_points", sleep_data, {},
                             build_sleep_points(sleep_data, BuildDay))

CallBuildHrv ==
    \E hrv_data \in HrvInputs :
        /\ BuildIdle
        /\ fnCall' = Applied("build_hrv_points", hrv_data, {},
                             build_hrv_points(hrv_data, BuildDay))

InitBuild ==
    /\ padYear = FALSE
    /\ args = NoArgs
    /\ MainIdle(Epoch, 0, { File("missing", << >>) })
    /\ LocatorIdle
    /\ io = NoIO
    /\ fnCall = NoCall

NextBuild ==
    \/ CallSafeFloat
    \/ CallCollectExtraFields
    \/ CallBuildDailyStats
    \/ CallBuildSleep
    \/ CallBuildHrv

SpecBuild == InitBuild /\ [][NextBuild]_vars

-----------------------------------------------------------------------------
(* fetch_and_write on its own: one day, with failures of the activities    *)
(* block and of the detail collectors of its sessions.                     *)

\* the failures of a detail collector: a fetch that finds nothing, a fetch
\* that fails, a sink write that fails
DetailFaultKinds == { [stage |-> "fetch", exc |-> Exc("HTTPError", 404)],
                      [stage |-> "fetch", exc |-> Exc("HTTPError", 500)],
                      [stage |-> "write", exc |-> Exc("ApiException", 500)] }

\* the sessions the environment fails: the first of a day, and the one
\* that follows two entries the loop passes over
FaultySessions == { PyInt(101, 0), PyInt(104, 0) }

DetailFaultSlots ==
    { [cat |-> DetailNames[j], act |-> id, stage |-> k.stage, exc |-> k.exc] :
          j \in DOMAIN DetailNames, id \in FaultySessions, k \in DetailFaultKinds }

ActivitiesFaultSlots == { f \in FaultSlots : f.cat = "activities" }

SameSlot(f, g) ==
    /\ f.cat = g.cat
    /\ ("act" \in DOMAIN f) = ("act" \in DOMAIN g)
    /\ "act" \in DOMAIN f => f.act = g.act

\* no failure, one, or two of different collectors
DaySlots == DetailFaultSlots \cup ActivitiesFaultSlots

DayFaultPlans ==
    { {} } \cup { p \in { {f, g} : f \in DaySlots, g \in DaySlots } :
                      \A f \in p, g \in p : f = g \/ ~ SameSlot(f, g) }

\* four days in a row: every shape of the activity list
SessionDays == { strftime(Epoch + k, TRUE) : k \in (0 - 1)..2 }

CallFetchAndWrite ==
    \E day_str \in SessionDays, plan \in DayFaultPlans :
        /\ dayLog = << >>
        /\ dayLog' = << [date |-> strptime(day_str).date, day |-> day_str,
                         plan |-> plan,
                         result |-> fetch_and_write(day_str, plan)] >>
        /\ UNCHANGED << clock, padYear, args, stateFile, pc, outcome, mode, today,
                        start, end, days, i, grand_total, all_errors,
                        grand_counts, exit_code, faultsLeft, runsLeft,
                        cursorAtStart, cursorReads, cursorWrites, prev,
                        LocatorVars, presence, io, fnCall >>

InitDay ==
    /\ padYear = FALSE
    /\ args = NoArgs
    /\ MainIdle(Epoch, 0, { File("missing", << >>) })
    /\ LocatorIdle
    /\ io = NoIO
    /\ fnCall = NoCall

NextDay == CallFetchAndWrite

SpecDay == InitDay /\ [][NextDay]_vars

-----------------------------------------------------------------------------
(* A run of main over days with sessions, the environment failing detail   *)
(* collectors of sessions and the fetch of the activity list.              *)

\* the failures tried: the splits cannot be fetched, the sink refuses the
\* track, for either session; the activity list cannot be fetched
SessionRunSlots ==
    { [cat |-> "activity splits", act |-> id, stage |-> "fetch",
       exc |-> Exc("HTTPError", 500)] : id \in FaultySessions }
    \cup { [cat |-> "activity track", act |-> id, stage |-> "write",
            exc |-> Exc("ApiException", 500)] : id \in FaultySessions }
    \cup { [cat |-> "activities", stage |-> "fetch", exc |-> Exc("HTTPError", 500)] }

\* the failures of one day, at most b of them
SessionRunPlans(b) == { p \in SUBSET SessionRunSlots : Cardinality(p) <= b }

\* a day of the run, with failures of its sessions
SyncSessionsDay == SyncDayOf(SessionRunPlans(faultsLeft))

\* the command lines tried: a day with three entries in its list, the
\* last MaxWindow days, since the last sync
SessionInvocations ==
    { Args(<< "2", "0", "2", "4", "-", "0", "6", "-", "1", "0" >>, FALSE, 0, FALSE),
      Args(<< >>, TRUE, MaxWindow, FALSE),
      NoArgs }

SessionRunFiles ==
    { File("missing", << >>), File("obj_key_string", strftime(Horizon - 2, TRUE)) }

InitSessions ==
    /\ padYear = FALSE
    /\ args \in SessionInvocations
    /\ MainIdle(Horizon, 1, SessionRunFiles)
    /\ LocatorIdle
    /\ io = NoIO
    /\ fnCall = NoCall

NextSessions ==
    \/ PlanDate
    \/ PlanDays
    \/ PlanAuto
    \/ SyncSessionsDay
    \/ Finish

SpecSessions == InitSessions /\ [][NextSessions]_vars

-----------------------------------------------------------------------------
(* The data catalog and the sync summary.                                  *)

\* an entry of the catalog: its measurement and its display_name
Category(measurement, display_name) ==
    [measurement |-> measurement, display_name |-> display_name]

\* get_data_catalog(): the entries in the order of the returned list
get_data_catalog ==
    << Category("daily_stats", "daily stats"),
       Category("sleep", "sleep"),
       Category("heart_rate", "heart rate"),
       Category("activity", "activities"),
       Category("activity_detail", "activity details"),
       Category("activity_split", "activity splits"),
       Category("activity_hr_zone", "activity HR zones"),
       Category("activity_weather", "activity weather"),
       Category("activity_track", "activity track"),
       Category("body_composition", "body composition"),
       Category("respiration", "respiration"),
       Category("spo2", "SpO2"),
       Category("stress", "stress"),
       Category("hrv", "HRV"),
       Category("hydration", "hydration"),
       Category("training_readiness", "training readiness"),
       Category("training_status", "training status"),
       Category("max_metrics", "max metrics"),
       Category("endurance_score", "endurance score"),
       Category("hill_score", "hill score"),
       Category("fitness_age", "fitness age"),
       Category("floors", "floors") >>

\* the names print_sync_summary has a row for, in the order of its tuple
print_sync_summary_names ==
    << "daily stats", "sleep", "heart rate", "body composition",
       "respiration", "SpO2", "stress", "HRV", "hydration",
       "training readiness", "training status", "max metrics",
       "endurance score", "hill score", "fitness age", "floors",
       "activities" >>

-----------------------------------------------------------------------------
(* Properties.                                                             *)

AllNames == Collectors \o << "activities" >>

\* the run went through its day loop and reached the end of main
Completed == pc = "done" /\ outcome = "completed"

\* the state file holds exactly date d
CursorIs(d) == read_last_sync(stateFile) = Returned(d)

\* the run has not touched the state file
CursorUntouched == stateFile = cursorAtStart /\ cursorWrites = 0

\* an error was recorded on some day of the run
ErrorRecorded == \E k \in DOMAIN dayLog : dayLog[k].result.errors # << >>

\* the environment's failure f is one the code is to take as "no data"
NotFound(f) == f.exc.type = "HTTPError" /\ f.exc.status = 404

\* failure f of a plan did raise on that day: a fetch always does, a sink
\* write only when there is a batch to write
Raises(f, day) ==
    f.stage = "fetch" \/ NormalPoints(f.cat, day) > 0

ErrorNames(r) == { r.errors[k].name : k \in DOMAIN r.errors }

\* C1: when a run has processed its window, the state file holds the
\* window's end date if and only if the run's error list is empty, and with
\* a non-empty error list the file is exactly as the run found it.
C1_CursorIffClean ==
    Completed =>
        IF all_errors = << >>
        THEN cursorWrites = 1 /\ CursorIs(end)
        ELSE CursorUntouched

C1_Witness ==
    /\ Completed
    /\ days = MaxWindow
    /\ all_errors # << >>
    /\ dayLog[1].result.errors = << >>
    /\ cursorAtStart.kind = "obj_key_string"
    /\ CursorUntouched

\* C2: on a day where exactly one category raises a non-benign exception
\* from its fetch, all seventeen categories are still fetched, every other
\* category has the count and the sink batch it has without that failure,
\* and the error list is the one entry of the failing category.
C2_FailureIsolated ==
    \A k \in DOMAIN dayLog :
        \A bad \in { { f \in dayLog[k].plan : ~ NotFound(f) } } :
            (Cardinality(bad) = 1 /\ \A f \in bad : f.stage = "fetch") =>
                \A f \in bad, r \in { dayLog[k].result },
                   d \in { dayLog[k].date } :
                \A base \in { fetch_and_write(dayLog[k].day, dayLog[k].plan \ {f}) } :
                    LET Other(x) == x.name \in SummaryNames \ {f.cat} IN
                    /\ r.fetched = AllNames
                    /\ r.errors = << [name |-> f.cat, exc |-> f.exc] >>
                    /\ \A c \in SummaryNames \ {f.cat} :
                           /\ DictGet(r.counts, c) = DictGet(base.counts, c)
                           /\ DictGet(r.counts, c)
                                = (IF c \in PlanCats(dayLog[k].plan)
                                   THEN 0 ELSE NormalPoints(c, d))
                    /\ SelectSeq(r.written, Other) = SelectSeq(base.written, Other)

C2_Witness ==
    \E k \in DOMAIN dayLog :
        /\ dayLog[k].plan = { [cat |-> "sleep", stage |-> "fetch",
                               exc |-> Exc("HTTPError", 500)] }
        /\ NormalPoints("sleep", dayLog[k].date) > 0
        /\ DictGet(dayLog[k].result.counts, "daily stats") > 0
        /\ DictGet(dayLog[k].result.counts, "floors") > 0
        /\ DictGet(dayLog[k].result.counts, "activities") > 0
        /\ ErrorNames(dayLog[k].result) = { "sleep" }

\* C3: an error on one day never stops the run: the day loop visits every
\* day of the window in order, every day fetches all seventeen categories,
\* every category the environment did not fail has its normal count, and a
\* run with an error recorded ends with the state file untouched.
C3_RunContinues ==
    /\ pc = "sync" => Len(dayLog) = i /\ (i <= days \/ days < 0)
    /\ Completed =>
        /\ Len(dayLog) = (IF days > 0 THEN days ELSE 0)
        /\ \A k \in DOMAIN dayLog :
            /\ dayLog[k].date = start + k - 1
            /\ strptime(dayLog[k].day) = [ok |-> TRUE, date |-> start + k - 1]
            /\ dayLog[k].result.fetched = AllNames
            /\ \A c \in SummaryNames \ PlanCats(dayLog[k].plan) :
                   DictGet(dayLog[k].result.counts, c) = NormalPoints(c, start + k - 1)
        /\ ErrorRecorded => CursorUntouched

C3_Witness ==
    /\ Completed
    /\ days = 3
    /\ dayLog[1].plan = {}
    /\ dayLog[2].plan = { [cat |-> "sleep", stage |-> "fetch",
                           exc |-> Exc("ConnectionError", 0)] }
    /\ dayLog[3].plan = {}
    /\ dayLog[3].result.total > 0
    /\ cursorAtStart.kind = "missing"
    /\ stateFile.kind = "missing"

PrevAutoFailed ==
    /\ prev.ran
    /\ prev.mode = "auto"
    /\ prev.outcome = "completed"
    /\ prev.failed
    /\ mode = "auto"
    /\ pc \in { "sync", "done" }

\* the window of the current run contains every day of the previous one
ContainsPrevWindow ==
    /\ outcome \in { "running", "completed" }
    /\ start <= prev.start
    /\ prev.end <= end

\* C4 (as specified): after an auto-resume run that ended with an error, the
\* next auto-resume run plans a window that contains every day of the failed
\* window, whatever cursor state the failed run started from.
C4_RetrySameWindow == PrevAutoFailed => ContainsPrevWindow

\* C4 (what the code guarantees): if the failed run started from a stored
\* cursor date, the next auto-resume run starts at the same day and ends
\* today, so its window contains the failed one; if the failed run found no
\* cursor, the next run plans today only, which contains the failed window
\* exactly when it is started on the same calendar day.
C4_RetryFromStoredCursor ==
    PrevAutoFailed =>
        IF prev.cursor = "date"
        THEN start = prev.start /\ end = today /\ ContainsPrevWindow
        ELSE /\ start = today /\ end = today
             /\ ContainsPrevWindow <=> today = prev.end

C4_Witness ==
    /\ PrevAutoFailed
    /\ prev.cursor = "date"
    /\ prev.end - prev.start >= 1
    /\ today > prev.end
    /\ Completed
    /\ Len(dayLog) = (prev.end - prev.start) + 2

\* days of the day log, as dates
LoggedDays == [k \in DOMAIN dayLog |-> dayLog[k].date]

Present == { d \in earliest..latest : Probe(presence, d, padYear).val }

\* false before some day and true from it onward
Monotone == \A d \in Present : \A x \in d..latest : x \in Present

\* C6: on a range E <= L with a presence function that is false before
\* some day D and true from D on, find_oldest_available_date returns D (E
\* itself when the function is true everywhere), and returns L when the
\* function is false on all of the range.
C6_LocatesFirstDay ==
    (lpc = "returned" /\ earliest <= latest /\ Monotone) =>
        IF Present = {} THEN located = latest
        ELSE /\ located \in Present
             /\ \A d \in Present : located <= d

C6_Witness ==
    /\ lpc = "returned"
    /\ Monotone
    /\ Present # {}
    /\ earliest < located
    /\ located < latest
    /\ Len(probes) >= 4

\* C7 (as specified): read_last_sync returns None, and raises nothing, for
\* every content of the state file that holds no YYYY-MM-DD last_sync string.
C7_ReadNeverRaises ==
    io.op = "read" =>
        /\ io.result.kind # "raise"
        /\ (stateFile.kind # "obj_key_string" => io.result = ReturnedNone)

\* C8 (as specified): a read after a write of date X returns X, whatever the
\* file held before and whatever was written earlier.
C8_RoundTrip ==
    (io.op = "read" /\ io.written # 0) => io.result = Returned(io.written)

OnlyNotFound ==
    \A k \in DOMAIN dayLog : \A f \in dayLog[k].plan :
        Raises(f, dayLog[k].date) => (f.stage = "fetch" /\ NotFound(f))

Coercible(val) == float(val).exc = "none"

\* C11 (as specified): _safe_float raises for no input; what cannot be
\* converted (None, a list, a dict, a text that is no number, an integer
\* too large for a float) gives None, and an int, a float or a numeric text
\* gives its float.
C11_SafeFloatNeverRaises ==
    fnCall.fn = "_safe_float" =>
        /\ fnCall.out.exc = "none"
        /\ IF Coercible(fnCall.arg)
           THEN fnCall.out.val = float(fnCall.arg).val
           ELSE fnCall.out.val = None

\* a raw record that is missing, empty, or holds nothing but nulls (a null
\* nested block is such a record)
Degenerate(raw) ==
    \/ raw = None
    \/ raw.t = "dict" /\ \A k \in DOMAIN raw.items : raw.items[k].val = None

Builders == { "build_daily_stats_points", "build_sleep_points",
              "build_hrv_points" }

\* C12 (as specified): a builder given a record that is missing, empty,
\* all null, or whose nested block is null returns the empty list and does
\* not raise.
C12_DegenerateIsNoData ==
    (fnCall.fn \in Builders /\ Degenerate(fnCall.arg)) =>
        fnCall.out = Built(<< >>)

\* key and value of a record entry that _collect_extra_fields is to emit
Discoverable(entry, known_keys) ==
    /\ entry.key \notin known_keys
    /\ entry.key \notin _IGNORED_GENERIC_KEYS
    /\ entry.val.t \notin { "NoneType", "dict", "list" }
    /\ Coercible(entry.val)

\* an entry outside the declared and ignored keys whose value is an integer
\* beyond the range of a float
Overflowing(entry, known_keys) ==
    /\ entry.key \notin known_keys
    /\ entry.key \notin _IGNORED_GENERIC_KEYS
    /\ float(entry.val).exc = "OverflowError"

\* the extras of a record: its discoverable entries, in the record's order,
\* each with the float of its value under its raw key
ExpectedExtras(data, known_keys) ==
    IF data.t # "dict" THEN << >>
    ELSE LET Keep(entry) == Discoverable(entry, known_keys)
             kept == SelectSeq(data.items, Keep)
         IN  [k \in 1..Len(kept) |->
                 [key |-> kept[k].key, val |-> float(kept[k].val).val]]

ExpectedDailyStats(stats, day_str) ==
    LET Emitted(e) == /\ e[1] \in Keys(stats)
                      /\ Item(stats, e[1]) # None
                      /\ Coercible(Item(stats, e[1]))
        declared == SelectSeq(DailyStatsFieldMap, Emitted)
        extras   == ExpectedExtras(stats, FieldMapKeys(DailyStatsFieldMap))
    IN  [k \in 1..Len(declared) |->
            Point("daily_stats", DayTs(day_str), declared[k][2],
                  float(Item(stats, declared[k][1])).val)]
        \o [k \in 1..Len(extras) |->
            Point("daily_stats", DayTs(day_str), extras[k].key, extras[k].val)]

Conflicting(a) ==
    \/ a.date # << >> /\ (a.days.given \/ a.backfill)
    \/ a.days.given /\ a.backfill

\* C15 (as specified): a command line that gives two or three of the
\* selectors is not accepted as a sync run: no window is planned from it,
\* the locator is not entered and no day is synced.
C15_ModesExclusive ==
    Conflicting(args) =>
        /\ pc \notin { "locate", "sync" }
        /\ outcome \notin { "running", "completed" }
        /\ dayLog = << >>

\* the run is in day-count mode with N >= 1 and main is past its planning
DayCountRun ==
    /\ mode = "days"
    /\ args.days.n >= 1
    /\ pc \in { "sync", "done" }

\* the window is the N days today-(N-1) .. today, synced once each in
\* ascending order
LastNDays ==
    /\ outcome \in { "running", "completed" }
    /\ start = today - (args.days.n - 1)
    /\ end = today
    /\ days = args.days.n
    /\ \A k \in DOMAIN dayLog :
           /\ dayLog[k].date = today - args.days.n + k
           /\ strptime(dayLog[k].day) =
                  [ok |-> TRUE, date |-> today - args.days.n + k]
    /\ Len(dayLog) <= args.days.n
    /\ Completed => Len(dayLog) = args.days.n

\* C16 (as specified): in day-count mode with value N the window is the N
\* consecutive days today-(N-1) .. today, each synced once in ascending
\* order, for every integer N >= 1.
C16_LastNDays == DayCountRun => LastNDays

\* C16 (what the code guarantees): the same for every N >= 1 whose first
\* day today-(N-1) is a date of the calendar; for a larger N the date
\* subtraction raises and the run ends before a window is planned.
C16_LastNDaysInCalendar ==
    DayCountRun =>
        IF InCalendar(today - (args.days.n - 1))
        THEN LastNDays
        ELSE outcome = "crashed" /\ dayLog = << >> /\ CursorUntouched

\* the upstream answer to the k-th probe of the search
Upstream(k) == get_stats(presence, strftime(probes[k], padYear))

\* the answer is a non-empty record with one of the probe keys non-null
HasData(answer) ==
    /\ answer.exc = "none"
    /\ answer.val.t = "dict"
    /\ answer.val.items # << >>
    /\ \E key \in ProbeKeys \cap Keys(answer.val) : Item(answer.val, key) # None

\* C17: no probe makes find_oldest_available_date raise: _probe_date
\* returns False when the upstream call raises a not-found error, another
\* HTTP error or any other exception, and returns True only for a non-empty
\* stats record with one of totalSteps, totalDistanceMeters,
\* restingHeartRate non-null.
C17_ProbeNeverRaises ==
    /\ lpc # "raised"
    /\ \A k \in DOMAIN probes :
        /\ Probe(presence, probes[k], padYear).exc = "none"
        /\ Upstream(k).exc # "none" => ~ Probe(presence, probes[k], padYear).val
        /\ Probe(presence, probes[k], padYear).val <=> HasData(Upstream(k))

C17_Witness ==
    /\ lpc = "returned"
    /\ \E k \in DOMAIN probes : Upstream(k) = Error("HTTPError", 500)
    /\ \E k \in DOMAIN probes : Upstream(k) = Error("ConnectionError", 0)
    /\ \E k \in DOMAIN probes : HasData(Upstream(k))
    /\ located \in presence

-----------------------------------------------------------------------------
\* The state file is touched by this step of main
CursorRead == cursorReads' # cursorReads /\ cursorReads' > 0

CursorWritten == stateFile' # stateFile \/ cursorWrites' > cursorWrites

\* the day loop has processed the last day of the window
WindowProcessed == pc = "sync" /\ ~ (i < days) /\ Len(dayLog) = i

\* C19: in every run the state file is read at most once, only in auto mode
\* and while no category of any day has been fetched, and it is written at
\* most once, only by the step that follows the last day of the window; in
\* every state before that step the file is as the run found it.
C19_CursorTouchedAtEnds ==
    /\ [](/\ cursorReads <= 1
          /\ cursorWrites <= 1
          /\ cursorReads = 1 => mode = "auto"
          /\ pc = "sync" => CursorUntouched
          /\ pc = "done" /\ outcome # "completed" => CursorUntouched)
    /\ [][CursorRead => /\ mode' = "auto"
                       /\ cursorReads' = 1
                       /\ dayLog' = << >>
                       /\ stateFile' = stateFile]_vars
    /\ [][CursorWritten => /\ WindowProcessed
                          /\ cursorWrites = 0
                          /\ cursorWrites' = 1
                          /\ pc' = "done"]_vars

\* an auto run that read the state file once, synced two days or more and
\* wrote the file once at the end
C19_Witness ==
    /\ Completed
    /\ mode = "auto"
    /\ cursorReads = 1
    /\ cursorWrites = 1
    /\ Len(dayLog) >= 2
    /\ stateFile # cursorAtStart

-----------------------------------------------------------------------------
\* the points the activities block wrote on a logged day
SessionPoints(k) == dayLog[k].result.points

\* two points of a day that the sink takes for one
Collide(points, a, b) == a # b /\ Identity(points[a]) = Identity(points[b])

\* C18: the points the per-session builders make for one day have pairwise
\* different identity (measurement, tag set, time), also on a day with two
\* sessions of the same start second, type and name.
C18_DistinctIdentity ==
    \A k \in DOMAIN dayLog :
        \A a, b \in DOMAIN SessionPoints(k) : ~ Collide(SessionPoints(k), a, b)

\* what holds: two points of a day collide only if both are "activity"
\* points, that is, points of two entries of the day's list; the points of
\* the detail collectors never collide with any other point.
C18_DistinctBySessionId ==
    \A k \in DOMAIN dayLog :
        \A a, b \in DOMAIN SessionPoints(k) :
            Collide(SessionPoints(k), a, b) =>
                /\ SessionPoints(k)[a].measurement = "activity"
                /\ SessionPoints(k)[b].measurement = "activity"

\* the entries of the day's list the detail collectors are to run for: an
\* id, and a start time that parses
Eligible(act) ==
    /\ act.t = "dict"
    /\ Truthy(get(act, "activityId", None).val)
    /\ \E key \in { "startTimeLocal", "startTimeGMT" } :
           strptime_seconds(get(act, key, None).val).exc = "none"

DayList(d) == Elements(get_activities_by_date(d))

\* every detail collector, in order, for every eligible entry, in order
RECURSIVE ExpectedAttempts(_, _)
ExpectedAttempts(acts, k) ==
    IF k > Len(acts) THEN << >>
    ELSE (IF Eligible(acts[k])
          THEN [j \in DOMAIN DetailNames |->
                   [name |-> DetailNames[j], act |-> Item(acts[k], "activityId")]]
          ELSE << >>) \o ExpectedAttempts(acts, k + 1)

\* the activities block got past its own fetch, build and write
ListDone(k) ==
    \A f \in dayLog[k].plan :
        f.cat = "activities" => ~ Raises(f, dayLog[k].date)

DetailFaults(plan) == { f \in plan : "act" \in DOMAIN f }

\* C20: the detail collectors are attempted only for entries of the day's
\* list that have an id and a start time that parses, and only when the
\* list was fetched; once the list is done, every detail collector of every
\* such entry is attempted, whatever any of them raises, no failure of a
\* detail collector is in the error list, and a detail collector that is
\* not failed for any session has the count it has without failures.
C20_DetailsIsolated ==
    \A k \in DOMAIN dayLog :
        LET r == dayLog[k].result
            acts == DayList(dayLog[k].date)
        IN  /\ \A j \in DOMAIN r.sub :
                   \E n \in DOMAIN acts :
                       /\ Eligible(acts[n])
                       /\ Item(acts[n], "activityId") = r.sub[j].act
            /\ r.sub # << >> =>
                   /\ \E j \in DOMAIN r.fetched : r.fetched[j] = "activities"
                   /\ FaultOf(dayLog[k].plan, "activities").stage # "fetch"
            /\ ListDone(k) =>
                   /\ r.sub = ExpectedAttempts(acts, 1)
                   /\ ErrorNames(r) \subseteq PlanCats(dayLog[k].plan \ DetailFaults(dayLog[k].plan))
                   /\ \A j \in DOMAIN DetailNames :
                          (\A f \in DetailFaults(dayLog[k].plan) : f.cat # DetailNames[j]) =>
                              DictGet(r.counts, DetailNames[j])
                                = DictGet(fetch_and_write(dayLog[k].day, {}).counts,
                                          DetailNames[j])

\* a day with two sessions where the splits of the first fail: all ten
\* detail collectors were attempted, the splits of the second are counted,
\* the error list is empty
C20_Witness ==
    \E k \in DOMAIN dayLog :
        /\ dayLog[k].plan = { [cat |-> "activity splits", act |-> PyInt(101, 0),
                               stage |-> "fetch", exc |-> Exc("HTTPError", 500)] }
        /\ Len(dayLog[k].result.sub) = 2 * Len(DetailNames)
        /\ Len(dayLog[k].result.debug) = 1
        /\ DictGet(dayLog[k].result.counts, "activity splits") = MaxSamples
        /\ DictGet(dayLog[k].result.counts, "activity track") = 2 * MaxSamples
        /\ dayLog[k].result.errors = << >>

\* the sum of the counts of a dict over keys
RECURSIVE SumOf(_, _)
SumOf(d, keys) ==
    IF keys = {} THEN 0
    ELSE LET k == CHOOSE x \in keys : TRUE
         IN  d[k] + SumOf(d, keys \ {k})

\* on day k of the run the sink write of category f.cat raised f.exc
WriteRaised(k, f) ==
    f.stage = "write" /\ NormalPoints(f.cat, dayLog[k].date) > 0

SinkFailed == \E k \in DOMAIN dayLog : \E f \in dayLog[k].plan : WriteRaised(k, f)

\* C21: when the sink write of a category's non-empty batch raises, the
\* exception is in the day's error list under the category's name, also an
\* ApiException of status 404; the sink was called once for the category
\* and the category has no count; the total is the sum of the counts; all
\* seventeen categories are fetched; the run leaves the state file as it
\* found it and exits 1.
C21_SinkFailureRecorded ==
    /\ \A k \in DOMAIN dayLog : \A f \in dayLog[k].plan :
           WriteRaised(k, f) =>
               \A r \in { dayLog[k].result } :
                   /\ \E j \in DOMAIN r.errors :
                          r.errors[j] = [name |-> f.cat, exc |-> f.exc]
                   /\ Cardinality({ j \in DOMAIN r.sinkCalls :
                                        r.sinkCalls[j].name = f.cat }) = 1
                   /\ \A j \in DOMAIN r.written : r.written[j].name # f.cat
                   /\ f.cat \notin DOMAIN r.counts
                   /\ r.total = SumOf(r.counts, DOMAIN r.counts)
                   /\ r.fetched = AllNames
    /\ SinkFailed => CursorUntouched
    /\ (SinkFailed /\ Completed) => exit_code = 1

\* a run of several days where the sink refused the sleep batch with an
\* ApiException 404 on one day, after and before categories that are counted
C21_Witness ==
    /\ Completed
    /\ days >= 2
    /\ cursorAtStart.kind = "obj_key_string"
    /\ CursorUntouched
    /\ \E k \in DOMAIN dayLog :
        /\ dayLog[k].plan = { [cat |-> "sleep", stage |-> "write",
                               exc |-> Exc("ApiException", 404)] }
        /\ WriteRaised(k, [cat |-> "sleep", stage |-> "write"])
        /\ DictGet(dayLog[k].result.counts, "daily stats") > 0
        /\ DictGet(dayLog[k].result.counts, "floors") > 0
        /\ dayLog[k].result.total > 0

\* the calls of the sink for category c in result r
SinkCallsOf(r, c) == { j \in DOMAIN r.sinkCalls : r.sinkCalls[j].name = c }

\* C22: on each day and for each of the seventeen categories the sink is
\* called at most once, and it is called exactly when the fetch did not
\* raise and the built list is not empty; the batch it is handed is the
\* built list, and a count recorded for the category is the size of that
\* batch; an empty list has no sink call, no count and no error.
C22_WriteOncePerBatch ==
    \A k \in DOMAIN dayLog : \A c \in SummaryNames :
        \A r \in { dayLog[k].result }, n \in { NormalPoints(c, dayLog[k].date) },
           fault \in { FaultOf(dayLog[k].plan, c) } :
            /\ Cardinality(SinkCallsOf(r, c)) <= 1
            /\ SinkCallsOf(r, c) # {} <=> (fault.stage # "fetch" /\ n > 0)
            /\ \A j \in SinkCallsOf(r, c) : r.sinkCalls[j].n = n
            /\ c \in DOMAIN r.counts =>
                   /\ SinkCallsOf(r, c) # {}
                   /\ r.counts[c] = n
            /\ (SinkCallsOf(r, c) # {} /\ fault.stage # "write") =>
                   DictGet(r.counts, c) = n
            /\ (fault.stage # "fetch" /\ n = 0) =>
                   /\ SinkCallsOf(r, c) = {}
                   /\ c \notin DOMAIN r.counts
                   /\ c \notin ErrorNames(r)

\* a day without failures where some categories have points and others,
\* the activities among them, have none
C22_Witness ==
    \E k \in DOMAIN dayLog :
        /\ dayLog[k].plan = {}
        /\ NormalPoints("activities", dayLog[k].date) = 0
        /\ NormalPoints("sleep", dayLog[k].date) = 0
        /\ SinkCallsOf(dayLog[k].result, "sleep") = {}
        /\ DictGet(dayLog[k].result.counts, "daily stats") = 2
        /\ Cardinality(SinkCallsOf(dayLog[k].result, "daily stats")) = 1
        /\ dayLog[k].result.errors = << >>

\* the exceptions the detail collectors raised on day k of the run
DetailRaised(k) ==
    { j \in DOMAIN dayLog[k].result.debug :
          ~ _is_no_data_not_found(dayLog[k].result.debug[j].exc) }

\* a failure of a category (not of a detail collector) raised on day k
CategoryRaised(k) ==
    \E f \in dayLog[k].plan \ DetailFaults(dayLog[k].plan) :
        Raises(f, dayLog[k].date) /\ ~ (f.stage = "fetch" /\ NotFound(f))

\* C23: an exception of a detail collector of a session (fetch, build or
\* sink write of details, splits, HR zones, weather or track) is never in
\* the day's error list; a run in which only detail collectors failed
\* writes its window's end date to the state file and exits 0.
C23_DetailFailuresAreClean ==
    /\ \A k \in DOMAIN dayLog :
           /\ ErrorNames(dayLog[k].result) \subseteq SummaryNames
           /\ ~ CategoryRaised(k) => dayLog[k].result.errors = << >>
    /\ (Completed /\ \A k \in DOMAIN dayLog : ~ CategoryRaised(k)) =>
           /\ all_errors = << >>
           /\ exit_code = 0
           /\ cursorWrites = 1
           /\ CursorIs(end)

\* a run over several days, the stored cursor before its window's end, in
\* which the splits of one session could not be fetched and the sink
\* refused the track of another, and nothing else failed
C23_Witness ==
    /\ Completed
    /\ days >= 2
    /\ cursorAtStart.kind = "obj_key_string"
    /\ ~ CursorUntouched
    /\ CursorIs(end)
    /\ exit_code = 0
    /\ \E k \in DOMAIN dayLog, n \in DOMAIN dayLog :
        /\ k # n
        /\ \E j \in DetailRaised(k) :
               /\ dayLog[k].result.debug[j].name = "activity splits"
               /\ dayLog[k].result.debug[j].exc = Exc("HTTPError", 500)
        /\ \E j \in DetailRaised(n) :
               /\ dayLog[n].result.debug[j].name = "activity track"
               /\ dayLog[n].result.debug[j].exc = Exc("ApiException", 500)

\* the date the state file held when the run started, and the one it holds
StoredBefore == read_last_sync(cursorAtStart)

StoredNow == read_last_sync(stateFile)

\* the run replaced a stored date by a later one
CursorAdvanced ==
    /\ StoredBefore.kind = "date"
    /\ StoredNow.kind = "date"
    /\ StoredNow.date > StoredBefore.date

\* day d was processed in the run: all its categories were attempted
Processed(d) ==
    \E k \in DOMAIN dayLog :
        dayLog[k].date = d /\ dayLog[k].result.fetched = AllNames

\* C24 (as specified): when a run changes the stored cursor from a date to
\* a later date, every day after the old date up to the new one was
\* processed in that run.
C24_NoDaySkipped ==
    CursorAdvanced =>
        \A d \in (StoredBefore.date + 1)..StoredNow.date : Processed(d)

\* C24 (what the code guarantees): the same for a run in auto-resume mode,
\* whose window starts on the day after the stored date.
C24_NoDaySkippedInAuto ==
    (mode = "auto" /\ CursorAdvanced) =>
        \A d \in (StoredBefore.date + 1)..StoredNow.date : Processed(d)

\* C25 (as specified): no run replaces a stored cursor date by an earlier
\* date.
C25_CursorNeverDecreases ==
    (StoredBefore.kind = "date" /\ StoredNow.kind = "date") =>
        StoredNow.date >= StoredBefore.date

\* C25 (what the code guarantees): a run in auto-resume mode never does.
C25_CursorNeverDecreasesInAuto ==
    (mode = "auto" /\ StoredBefore.kind = "date" /\ StoredNow.kind = "date") =>
        StoredNow.date >= StoredBefore.date

\* the cursor 2024-06-09, then python catgar.py --days 1 on 2024-06-12
SkippedDaysExample ==
    /\ Completed
    /\ args = Args(<< >>, TRUE, 1, FALSE)
    /\ StoredBefore = Returned(ymd2ord(2024, 6, 9))
    /\ StoredNow = Returned(ymd2ord(2024, 6, 12))
    /\ LoggedDays = << ymd2ord(2024, 6, 12) >>
    /\ all_errors = << >>

\* the cursor 2024-06-12, then python catgar.py 2024-06-10
EarlierDateExample ==
    /\ Completed
    /\ mode = "date"
    /\ StoredBefore = Returned(ymd2ord(2024, 6, 12))
    /\ StoredNow = Returned(ymd2ord(2024, 6, 10))
    /\ LoggedDays = << ymd2ord(2024, 6, 10) >>

\* C26 (as specified): the cursor is written only by a run that processed
\* at least one day, whatever the window, a window of --days N with N <= 0
\* included.
C26_WrittenOnlyAfterADay == cursorWrites > 0 => dayLog # << >>

\* C26 (what the code guarantees): a run whose window has a day writes the
\* cursor only after it processed every day of the window.
C26_WrittenOnlyAfterWindow ==
    (cursorWrites > 0 /\ days >= 1) => Len(dayLog) = days

\* python catgar.py --days 0: no day is synced, today is written
EmptyWindowExample ==
    /\ Completed
    /\ args = Args(<< >>, TRUE, 0, FALSE)
    /\ days = 0
    /\ dayLog = << >>
    /\ cursorWrites = 1
    /\ cursorAtStart.kind = "missing"
    /\ StoredNow = Returned(today)

\* the search ran on a range of more than one day whose first day has no
\* data and whose last day has
Bracketed ==
    /\ earliest < latest
    /\ earliest \notin Present
    /\ latest \in Present

\* C27: for every presence function on [E, L], monotone or not, with E < L,
\* no data on E and data on L, find_oldest_available_date returns a day r
\* with E < r <= L that has data and whose eve has none.
C27_ReturnsBoundary ==
    (lpc = "returned" /\ Bracketed) =>
        /\ earliest < located
        /\ located <= latest
        /\ located \in Present
        /\ (located - 1) \notin Present

\* a history with a hole: the returned day has data, the day before has
\* none, and an earlier day of the range has data as well
C27_Witness ==
    /\ lpc = "returned"
    /\ Bracketed
    /\ ~ Monotone
    /\ \E d \in Present : d < located - 1
    /\ located < latest
    /\ Len(probes) >= 4

\* floor(log2(n)) for n >= 1
RECURSIVE Log2(_)
Log2(n) == IF n <= 1 THEN 0 ELSE 1 + Log2(n \div 2)

\* the probes a finished search may have issued on its range
ProbesWithinBound ==
    \A n \in { latest - earliest } :
        /\ n <= 0 => Len(probes) = 1
        /\ (n >= 1 /\ earliest \in Present) => Len(probes) = 1
        /\ (n >= 1 /\ earliest \notin Present /\ latest \notin Present) =>
               Len(probes) = 2
        /\ n >= 1 => Len(probes) <= 3 + Log2(n)

\* an iteration of the while loop
LoopIteration == lpc = "loop" /\ lpc' = "loop"

\* C28: on every range and every presence function the while loop of
\* find_oldest_available_date has a bound that decreases: low <= high holds
\* whenever the loop is at its test, each iteration strictly decreases
\* high - low and issues one probe; the search issues one probe when the
\* range has no more than one day or its first day has data, two when
\* neither its first nor its last day has data, and never more than
\* 3 + floor(log2(n)) on a range of n >= 1 days.
C28_SearchBounded ==
    /\ [](/\ lpc = "loop" => low <= high
          /\ lpc = "returned" => ProbesWithinBound
          /\ (lpc # "off" /\ latest - earliest >= 1) =>
                 Len(probes) <= 3 + Log2(latest - earliest))
    /\ [][LoopIteration =>
              /\ high' - low' < high - low
              /\ low' <= high'
              /\ Len(probes') = Len(probes) + 1]_vars

\* a search that needed every probe the bound allows
C28_Witness ==
    /\ lpc = "returned"
    /\ latest - earliest >= 4
    /\ Len(probes) = 3 + Log2(latest - earliest)
    /\ located \in Present

\* C29: in the result of fetch_and_write for one day every entry of the
\* error list names one of the seventeen categories, no category is named
\* twice, a category that is named has no points counted, and the total is
\* the sum of the counts.
C29_ErrorsAndCountsExclusive ==
    \A k \in DOMAIN dayLog :
        \A r \in { dayLog[k].result } :
            /\ ErrorNames(r) \subseteq SummaryNames
            /\ \A a \in DOMAIN r.errors, b \in DOMAIN r.errors :
                   r.errors[a].name = r.errors[b].name => a = b
            /\ \A c \in SummaryNames :
                   ~ (c \in ErrorNames(r) /\ DictGet(r.counts, c) > 0)
            /\ r.total = SumOf(r.counts, DOMAIN r.counts)

\* a day where the sink refused the sleep batch and the fetch of the
\* activity list failed, the other categories being counted
C29_Witness ==
    \E k \in DOMAIN dayLog :
        /\ ErrorNames(dayLog[k].result) = { "sleep", "activities" }
        /\ Len(dayLog[k].result.errors) = 2
        /\ WriteRaised(k, [cat |-> "sleep", stage |-> "write"])
        /\ FaultOf(dayLog[k].plan, "sleep").stage = "write"
        /\ DOMAIN dayLog[k].result.counts # {}
        /\ dayLog[k].result.total > 0

\* a day whose total counts the points of the detail collectors of a
\* session next to those of the categories, the sleep fetch having failed
CountsWithSessions ==
    \E k \in DOMAIN dayLog :
        /\ ErrorNames(dayLog[k].result) = { "sleep" }
        /\ DictGet(dayLog[k].result.counts, "activities") > 0
        /\ DictGet(dayLog[k].result.counts, "activity track") > 0

\* the display names and the measurement names of the catalog
DisplayNames == { get_data_catalog[k].display_name : k \in DOMAIN get_data_catalog }

Measurements == { get_data_catalog[k].measurement : k \in DOMAIN get_data_catalog }

\* the names print_sync_summary lists
ListedNames == { print_sync_summary_names[k] : k \in DOMAIN print_sync_summary_names }

\* the names fetch_and_write recorded counts under
CountedNames == UNION { DOMAIN dayLog[k].result.counts : k \in DOMAIN dayLog }

\* C30 (as specified): get_data_catalog returns exactly 17 categories with
\* pairwise distinct measurement names, the set of their display names is
\* the set of the 17 names print_sync_summary lists, and every name
\* fetch_and_write records counts under is one of these names.
C30_CatalogMatchesSummary ==
    /\ Len(get_data_catalog) = 17
    /\ Cardinality(Measurements) = Len(get_data_catalog)
    /\ Cardinality(ListedNames) = 17
    /\ DisplayNames = ListedNames
    /\ CountedNames \subseteq ListedNames

\* C30 (what the code guarantees): the catalog has 22 categories with
\* pairwise distinct measurement names and pairwise distinct display names;
\* the 17 names print_sync_summary lists are 17 of its display names, the
\* other five being those of the detail collectors; every name
\* fetch_and_write records counts under is a display name of the catalog.
C30_CatalogCoversCounts ==
    /\ Len(get_data_catalog) = 22
    /\ Cardinality(Measurements) = Len(get_data_catalog)
    /\ Cardinality(DisplayNames) = Len(get_data_catalog)
    /\ Cardinality(ListedNames) = 17
    /\ ListedNames = SummaryNames
    /\ DisplayNames = ListedNames \cup { DetailNames[j] : j \in DOMAIN DetailNames }
    /\ CountedNames \subseteq DisplayNames

\* a day whose counts carry names print_sync_summary has no row for
UnlistedCountsExample ==
    \E k \in DOMAIN dayLog :
        /\ dayLog[k].plan = {}
        /\ DictGet(dayLog[k].result.counts, "activities") > 0
        /\ DictGet(dayLog[k].result.counts, "activity details") > 0
        /\ DictGet(dayLog[k].result.counts, "activity splits") > 0
        /\ "activity details" \notin ListedNames

====
